---- MODULE Spec2Model ----
(***************************************************************************)
(* WinIsland: the animation and state-interpolation core of the floating   *)
(* "dynamic island" widget (src/source/media_widget.py), the text-metric   *)
(* feedback of its renderer (src/source/renderer.py) and the hand-off of   *)
(* the media worker (src/source/utils.py).                                 *)
(*                                                                         *)
(* Python floats are modelled as fixed-point integers:                     *)
(*   ONE  units = 1.0      progress values, button scale/offset, bars      *)
(*   PX   units = 1 pixel  spring size and velocity                        *)
(*   TU   units = 1 second times, timers, playback position (ms)           *)
(*   SPX  units = 1 pixel  scroll offset and text widths (speed*dt exact)  *)
(* A product with a float factor (0.1, 0.15, 0.62 ...) is rounded to the   *)
(* nearest unit, as a float product is rounded to the nearest float.       *)
(***************************************************************************)
EXTENDS Integers, Sequences, FiniteSets, TLC

ONE == 10^6
PX == 10^4
TU == 10^3
SPX == 10^3

\* ------------------------------------------------------------ config.py
IDLE_W == 200
IDLE_H == 35
HOVER_W == 230
HOVER_H == 42
EXPAND_W == 520
EXPAND_H == 220
MEDIA_IDLE_W == 300
MEDIA_TEMP_W == 350
MEDIA_HOVER_W == 330
\* seconds
TEMP_MODE_DURATION == 5
\* hundredths: 0.15 and 0.62
SPRING_STIFFNESS == 15
SPRING_DAMPING == 62
BARYPOS == 70
BTNYPOS == 40

Keys == {"prev", "play", "next"}

VARIABLES
    \* _init_physics_state, and the window geometry set by update_geometry
    current_w, current_h, target_w, target_h, vel_w, vel_h, win_w, win_h,
    \* _init_button_state
    btn_anim, btn_hover_states, btn_hover_anims,
    \* _init_visualizer_state
    vis_bars, vis_offsets, vis_multiplier,
    \* _init_art_state (artwork is an image id, 0 = b"" / None)
    art_flip_progress, art_fade_progress, is_flipping_art, is_fading_art,
    box_fade_anim, cd_rotation, current_album_art, prev_album_art, last_img_bytes,
    \* _init_text_state
    temp_mode_active, temp_mode_start_time, temp_mode_progress,
    text_change_progress, scroll_x, scroll_wait_timer, scroll_direction,
    text_fits, title_text_width, available_text_w, idle_scale_anim,
    \* _init_media_state
    bar_hover_anim, is_bar_hovered, is_expanded, is_hovered, expand_progress,
    title_text, raw_title, artist_text, is_playing, display_pos, media_dur,
    last_tick_time,
    \* MediaWorker: session handle, coroutines scheduled on its loop, and the
    \* queued metadata_updated signals not yet delivered to the widget
    current_session, pending, inbox,
    \* time.time()
    now,
    \* observation of the last handler that ran: its name, its arguments or
    \* locals, and whether it called update() / update_geometry()
    last_op, last_snap, last_dt, update_pending, tick_repaint, tick_scrolling,
    geom_update,
    \* the handler the widget's thread is running ("idle" between two events
    \* of its event loop), and the commands that reached the media session
    gui, delivered,
    \* run bookkeeping: external events still allowed, timer callbacks so far,
    \* the fields a handler read before it ran, the ticks since the last handler
    \* that wrote playback state, and the consecutive ticks with the spring
    \* target unchanged and no click impulse
    budget, ticks, pre, since, stable

physVars == <<current_w, current_h, target_w, target_h, vel_w, vel_h, win_w, win_h>>
btnVars == <<btn_anim, btn_hover_states, btn_hover_anims>>
visVars == <<vis_bars, vis_offsets, vis_multiplier>>
artVars == <<art_flip_progress, art_fade_progress, is_flipping_art, is_fading_art,
             box_fade_anim, cd_rotation, current_album_art, prev_album_art, last_img_bytes>>
tempVars == <<temp_mode_active, temp_mode_start_time, temp_mode_progress, text_change_progress>>
scrollVars == <<scroll_x, scroll_wait_timer, scroll_direction>>
metricVars == <<text_fits, title_text_width, available_text_w>>
hoverVars == <<is_bar_hovered, is_hovered>>
mediaVars == <<title_text, raw_title, artist_text, media_dur>>
animVars == <<idle_scale_anim, bar_hover_anim, expand_progress>>
workerVars == <<current_session, pending, inbox>>
threadVars == <<gui, delivered>>
obsVars == <<last_op, last_snap, last_dt, update_pending, tick_repaint,
             tick_scrolling, geom_update>>

vars == <<physVars, btnVars, visVars, artVars, tempVars, scrollVars, metricVars,
          hoverVars, mediaVars, animVars, workerVars, obsVars, threadVars,
          is_expanded, is_playing, display_pos, last_tick_time, now,
          budget, ticks, pre, since, stable>>

\* ------------------------------------------------------------ arithmetic
Abs(x) == IF x < 0 THEN -x ELSE x
Min(a, b) == IF a < b THEN a ELSE b
Max(a, b) == IF a > b THEN a ELSE b

\* x * n / d rounded to the nearest unit (ties away from zero)
MulDiv(x, n, d) ==
    IF x >= 0 THEN (x * n + d \div 2) \div d
    ELSE -(((-x) * n + d \div 2) \div d)

\* cur += (target - cur) * (n/d)
Ease(cur, target, n, d) == cur + MulDiv(target - cur, n, d)

\* int(x) of a non-negative PX value, in pixels
IntPx(x) == IF x >= 0 THEN x \div PX ELSE -((-x) \div PX)

\* ------------------------------------------------------------ animators
\* mutant: the hover flag is tested before the expanded flag
SpringTarget_HoverFirst(expanded, hovered, title, tprog) ==
    LET has_media == (title # "Idle")
        current_idle_w == MEDIA_IDLE_W * PX
                          + MulDiv((MEDIA_TEMP_W - MEDIA_IDLE_W) * tprog, 1, ONE \div PX)
        target_idle_w == IF has_media THEN current_idle_w ELSE IDLE_W * PX
        target_hover_w == IF has_media THEN MEDIA_HOVER_W * PX ELSE HOVER_W * PX
    IN  IF hovered THEN [w |-> target_hover_w, h |-> HOVER_H * PX]
        ELSE IF expanded THEN [w |-> EXPAND_W * PX, h |-> EXPAND_H * PX]
        ELSE [w |-> target_idle_w, h |-> IDLE_H * PX]

\* animate_spring, target selection: expanded > hovered > idle
SpringTarget(expanded, hovered, title, tprog) ==
    LET has_media == (title # "Idle")
        current_idle_w == MEDIA_IDLE_W * PX
                          + MulDiv((MEDIA_TEMP_W - MEDIA_IDLE_W) * tprog, 1, ONE \div PX)
        target_idle_w == IF has_media THEN current_idle_w ELSE IDLE_W * PX
        target_hover_w == IF has_media THEN MEDIA_HOVER_W * PX ELSE HOVER_W * PX
    IN  IF expanded THEN [w |-> EXPAND_W * PX, h |-> EXPAND_H * PX]
        ELSE IF hovered THEN [w |-> target_hover_w, h |-> HOVER_H * PX]
        ELSE [w |-> target_idle_w, h |-> IDLE_H * PX]

\* one axis of the integrator: force, velocity, damping, position
SpringAxis(cur, vel, target) ==
    LET force == MulDiv(target - cur, SPRING_STIFFNESS, 100)
        v == MulDiv(vel + force, SPRING_DAMPING, 100)
    IN  [cur |-> cur + v, vel |-> v]

\* mutant: the spring never snaps to its target
AnimateSpring_NoSnap(cw, ch, vw, vh, expanded, hovered, title, tprog) ==
    LET t == SpringTarget(expanded, hovered, title, tprog)
        sw == SpringAxis(cw, vw, t.w)
        sh == SpringAxis(ch, vh, t.h)
    IN  [target_w |-> t.w, target_h |-> t.h, vel_w |-> sw.vel, vel_h |-> sh.vel,
         current_w |-> sw.cur, current_h |-> sh.cur, geom |-> TRUE]

\* animate_spring: the step, then snap to the target or update_geometry()
AnimateSpring(cw, ch, vw, vh, expanded, hovered, title, tprog) ==
    LET t == SpringTarget(expanded, hovered, title, tprog)
        sw == SpringAxis(cw, vw, t.w)
        sh == SpringAxis(ch, vh, t.h)
        snap == /\ Abs(sw.vel) < PX \div 100
                /\ Abs(sh.vel) < PX \div 100
                /\ Abs(t.w - sw.cur) < PX \div 10
                /\ Abs(t.h - sh.cur) < PX \div 10
    IN  [target_w |-> t.w, target_h |-> t.h, vel_w |-> sw.vel, vel_h |-> sh.vel,
         current_w |-> IF snap THEN t.w ELSE sw.cur,
         current_h |-> IF snap THEN t.h ELSE sh.cur,
         geom |-> ~snap]

\* mutant: the offset of a pressed button is not relaxed
AnimateButton_KeepOffset(hover_state, hover_anim, state) ==
    LET target_hover == IF hover_state THEN ONE ELSE 0
        ha == Ease(hover_anim, target_hover, 2, 10)
        target_scale == ONE + MulDiv(ha, 2, 10)
        sc == Ease(state.scale, target_scale, 2, 10)
        off == state.offset
    IN  [hover_anim |-> ha, scale |-> sc, offset |-> off,
         moving |-> \/ Abs(sc - target_scale) > ONE \div 1000
                    \/ Abs(off) > ONE \div 10
                    \/ Abs(ha - target_hover) > ONE \div 100]

\* _animate_buttons, one key: hover ease, scale ease, offset ease, "moving"
AnimateButton(hover_state, hover_anim, state) ==
    LET target_hover == IF hover_state THEN ONE ELSE 0
        ha == Ease(hover_anim, target_hover, 2, 10)
        target_scale == ONE + MulDiv(ha, 2, 10)
        sc == Ease(state.scale, target_scale, 2, 10)
        off == Ease(state.offset, 0, 2, 10)
    IN  [hover_anim |-> ha, scale |-> sc, offset |-> off,
         moving |-> \/ Abs(sc - target_scale) > ONE \div 1000
                    \/ Abs(off) > ONE \div 10
                    \/ Abs(ha - target_hover) > ONE \div 100]

\* mutant: the counter stops only once it is above 1.0
ArtCounter_Strict(active, progress, step) ==
    IF active
    THEN IF progress + step > ONE
         THEN [progress |-> ONE, active |-> FALSE]
         ELSE [progress |-> progress + step, active |-> TRUE]
    ELSE [progress |-> progress, active |-> FALSE]

\* mutant: the flip takes the fade's step and the fade the flip's
ArtCounter_SwappedSteps(active, progress, step) ==
    LET other == ONE \div 20 + ONE \div 25 - step
    IN  IF active
        THEN IF progress + other >= ONE
             THEN [progress |-> ONE, active |-> FALSE]
             ELSE [progress |-> progress + other, active |-> TRUE]
        ELSE [progress |-> progress, active |-> FALSE]

\* _animate_album_art, one counter: step, clamp at 1.0 and go inactive
ArtCounter(active, progress, step) ==
    IF active
    THEN IF progress + step >= ONE
         THEN [progress |-> ONE, active |-> FALSE]
         ELSE [progress |-> progress + step, active |-> TRUE]
    ELSE [progress |-> progress, active |-> FALSE]

\* mutant: temp mode ends as soon as the duration is reached
AnimateTempMode_Inclusive(active, start_time, progress, now_time) ==
    LET p == IF active THEN Ease(progress, ONE, 1, 10) ELSE Ease(progress, 0, 1, 10)
    IN  [active |-> active /\ ~(now_time - start_time >= TEMP_MODE_DURATION * TU),
         progress |-> p,
         animating |-> (p > ONE \div 1000 /\ p < ONE - ONE \div 1000)]

\* mutant: temp mode never expires
AnimateTempMode_NoExpiry(active, start_time, progress, now_time) ==
    LET p == IF active THEN Ease(progress, ONE, 1, 10) ELSE Ease(progress, 0, 1, 10)
    IN  [active |-> active,
         progress |-> p,
         animating |-> (p > ONE \div 1000 /\ p < ONE - ONE \div 1000)]

\* _animate_temp_mode
AnimateTempMode(active, start_time, progress, now_time) ==
    LET p == IF active THEN Ease(progress, ONE, 1, 10) ELSE Ease(progress, 0, 1, 10)
    IN  [active |-> active /\ ~(now_time - start_time > TEMP_MODE_DURATION * TU),
         progress |-> p,
         animating |-> (p > ONE \div 1000 /\ p < ONE - ONE \div 1000)]

\* mutant: an ineligible tick pauses the scroll instead of resetting it
AnimateScroll_Pause(sx, timer, dir, should_scroll, text_w, avail_w, dt) ==
    LET max_scroll == Max(0, text_w - avail_w)
        speed == 30
        same == [scroll_x |-> sx, timer |-> timer, dir |-> dir, scrolling |-> FALSE]
    IN  IF ~should_scroll THEN same
        ELSE IF ~(max_scroll > 0) THEN same
        ELSE IF timer > 0
        THEN IF timer - dt <= 0
             THEN [same EXCEPT !.timer = 0,
                               !.dir = IF sx <= 0 THEN 1
                                       ELSE IF sx >= max_scroll THEN -1 ELSE dir]
             ELSE [same EXCEPT !.timer = timer - dt]
        ELSE IF dir = 0
        THEN [same EXCEPT !.timer = 5 * TU, !.scrolling = TRUE]
        ELSE IF dir = 1
        THEN IF sx + speed * dt >= max_scroll
             THEN [scroll_x |-> max_scroll, timer |-> 2 * TU, dir |-> 0, scrolling |-> TRUE]
             ELSE [same EXCEPT !.scroll_x = sx + speed * dt, !.scrolling = TRUE]
        ELSE IF sx - speed * dt <= 0
             THEN [scroll_x |-> 0, timer |-> 5 * TU, dir |-> 0, scrolling |-> TRUE]
             ELSE [same EXCEPT !.scroll_x = sx - speed * dt, !.scrolling = TRUE]

\* mutant: the pause at the end is as long as the pause at the start
AnimateScroll_SamePause(sx, timer, dir, should_scroll, text_w, avail_w, dt) ==
    LET max_scroll == Max(0, text_w - avail_w)
        speed == 30
        same == [scroll_x |-> sx, timer |-> timer, dir |-> dir, scrolling |-> FALSE]
    IN  IF ~should_scroll
        THEN [scroll_x |-> 0, timer |-> 0, dir |-> 0, scrolling |-> FALSE]
        ELSE IF ~(max_scroll > 0) THEN same
        ELSE IF timer > 0
        THEN IF timer - dt <= 0
             THEN [same EXCEPT !.timer = 0,
                               !.dir = IF sx <= 0 THEN 1
                                       ELSE IF sx >= max_scroll THEN -1 ELSE dir]
             ELSE [same EXCEPT !.timer = timer - dt]
        ELSE IF dir = 0
        THEN [same EXCEPT !.timer = 5 * TU, !.scrolling = TRUE]
        ELSE IF dir = 1
        THEN IF sx + speed * dt >= max_scroll
             THEN [scroll_x |-> max_scroll, timer |-> 5 * TU, dir |-> 0, scrolling |-> TRUE]
             ELSE [same EXCEPT !.scroll_x = sx + speed * dt, !.scrolling = TRUE]
        ELSE IF sx - speed * dt <= 0
             THEN [scroll_x |-> 0, timer |-> 5 * TU, dir |-> 0, scrolling |-> TRUE]
             ELSE [same EXCEPT !.scroll_x = sx - speed * dt, !.scrolling = TRUE]

\* _animate_scroll: the WAIT / FORWARD / BACKWARD machine
AnimateScroll(sx, timer, dir, should_scroll, text_w, avail_w, dt) ==
    LET max_scroll == Max(0, text_w - avail_w)
        speed == 30
        same == [scroll_x |-> sx, timer |-> timer, dir |-> dir, scrolling |-> FALSE]
    IN  IF ~should_scroll
        THEN [scroll_x |-> 0, timer |-> 0, dir |-> 0, scrolling |-> FALSE]
        ELSE IF ~(max_scroll > 0) THEN same
        ELSE IF timer > 0
        THEN IF timer - dt <= 0
             THEN [same EXCEPT !.timer = 0,
                               !.dir = IF sx <= 0 THEN 1
                                       ELSE IF sx >= max_scroll THEN -1 ELSE dir]
             ELSE [same EXCEPT !.timer = timer - dt]
        ELSE IF dir = 0
        THEN [same EXCEPT !.timer = 5 * TU, !.scrolling = TRUE]
        ELSE IF dir = 1
        THEN IF sx + speed * dt >= max_scroll
             THEN [scroll_x |-> max_scroll, timer |-> 2 * TU, dir |-> 0, scrolling |-> TRUE]
             ELSE [same EXCEPT !.scroll_x = sx + speed * dt, !.scrolling = TRUE]
        ELSE IF sx - speed * dt <= 0
             THEN [scroll_x |-> 0, timer |-> 5 * TU, dir |-> 0, scrolling |-> TRUE]
             ELSE [same EXCEPT !.scroll_x = sx - speed * dt, !.scrolling = TRUE]

\* math.sin on centi-radians, result in 1/1000 (Bhaskara's rational form)
SinPos(x) == (16 * x * (314 - x) * 1000) \div (5 * 314 * 314 - 4 * x * (314 - x))
Sin1000(c) ==
    LET x == c % 628
    IN  IF x <= 314 THEN SinPos(x) ELSE -SinPos(x - 314)

RECURSIVE SqrtBetween(_, _, _)
SqrtBetween(n, lo, hi) ==
    IF lo >= hi THEN lo
    ELSE LET mid == (lo + hi + 1) \div 2
         IN  IF mid * mid <= n THEN SqrtBetween(n, mid, hi)
             ELSE SqrtBetween(n, lo, mid - 1)

\* math.pow(r, 2.5) on 1/1000 values: r^2 * sqrt(r)
Pow25(r) == (((r * r) \div 1000) * SqrtBetween(r * 1000, 0, 1000)) \div 1000

\* mutant: the three waves are averaged over 3 instead of normalised over 6
VisNoise_Unscaled(i, offset, now_time) ==
    LET wave1 == Sin1000(now_time \div 2 + offset)
        wave2 == Sin1000((now_time * 12) \div 10 + offset * 2)
        wave3 == Sin1000(now_time \div 5 + i * 10)
        raw_noise == (wave1 + wave2 + wave3 + 3000) \div 3
    IN  Pow25(raw_noise) * (ONE \div 1000)

\* the synthetic waveform of bar i at time now_time (ms), in ONE units
VisNoise(i, offset, now_time) ==
    LET wave1 == Sin1000(now_time \div 2 + offset)
        wave2 == Sin1000((now_time * 12) \div 10 + offset * 2)
        wave3 == Sin1000(now_time \div 5 + i * 10)
        raw_noise == (wave1 + wave2 + wave3 + 3000) \div 6
    IN  Pow25(raw_noise) * (ONE \div 1000)

\* _animate_visualizer, one bar
AnimateBar(i, bar, offset, playing, now_time) ==
    IF playing THEN Ease(bar, VisNoise(i, offset, now_time), 3, 10)
    ELSE Ease(bar, ONE \div 20, 1, 10)

\* mutant: no sleep guard
TickDt_NoGuard(now_time, last) == now_time - last

\* game_loop: dt with the sleep guard
TickDt(now_time, last) == IF now_time - last > 1 * TU THEN 0 ELSE now_time - last

\* mutant: the position advances by a nominal frame time, whatever dt is
AdvancePos_PerFrame(pos, playing, dur, dt) ==
    IF playing /\ dur > 0
    THEN IF pos + 16 > dur THEN dur ELSE pos + 16
    ELSE pos

\* mutant: no clamp to the duration
AdvancePos_NoClamp(pos, playing, dur, dt) ==
    IF playing /\ dur > 0 THEN pos + dt ELSE pos

\* game_loop: position extrapolation
AdvancePos(pos, playing, dur, dt) ==
    IF playing /\ dur > 0
    THEN IF pos + dt > dur THEN dur ELSE pos + dt
    ELSE pos

\* mutant: the box fade does not ask for a repaint
ShouldRepaint_NoBoxFade(playing, vis_mult, flipping, fading, btns_moving, text_animating, text_changing, box_fading, temp_active, bar_delta, is_scrolling, idle_animating, expand_animating) ==
    \/ playing
    \/ vis_mult > ONE \div 100
    \/ flipping
    \/ fading
    \/ btns_moving
    \/ text_animating
    \/ text_changing
    \/ temp_active
    \/ bar_delta > ONE \div 100
    \/ is_scrolling
    \/ idle_animating
    \/ expand_animating

\* game_loop: should_repaint
ShouldRepaint(playing, vis_mult, flipping, fading, btns_moving, text_animating, text_changing, box_fading, temp_active, bar_delta, is_scrolling, idle_animating, expand_animating) ==
    \/ playing
    \/ vis_mult > ONE \div 100
    \/ flipping
    \/ fading
    \/ btns_moving
    \/ text_animating
    \/ text_changing
    \/ box_fading
    \/ temp_active
    \/ bar_delta > ONE \div 100
    \/ is_scrolling
    \/ idle_animating
    \/ expand_animating

\* ------------------------------------------------------------ state
\* bars modelled (the widget draws 100, all updated by the same rule)
VisCount == 2
Bars == 0 .. (VisCount - 1)

\* time.time() at construction, seconds
StartTime == 10

NoSnap == [title |-> "", artist |-> 0, is_playing |-> FALSE, pos |-> 0, dur |-> 0, img |-> 0]

\* the fields the claims compare a handler's result against
PreState ==
    [raw_title |-> raw_title, display_pos |-> display_pos, is_playing |-> is_playing,
     scroll_x |-> scroll_x, scroll_wait_timer |-> scroll_wait_timer,
     scroll_direction |-> scroll_direction, last_tick_time |-> last_tick_time,
     now |-> now,
     size |-> <<current_w, current_h>>, vel |-> <<vel_w, vel_h>>,
     btn_anim |-> btn_anim, btn_hover_anims |-> btn_hover_anims,
     art_flip_progress |-> art_flip_progress, art_fade_progress |-> art_fade_progress,
     is_flipping_art |-> is_flipping_art,
     temp_mode_progress |-> temp_mode_progress, expand_progress |-> expand_progress,
     temp_mode_active |-> temp_mode_active, is_fading_art |-> is_fading_art,
     last_img_bytes |-> last_img_bytes, current_album_art |-> current_album_art,
     vis_bars |-> vis_bars, vis_multiplier |-> vis_multiplier,
     bar_hover_anim |-> bar_hover_anim]

\* DynamicIsland.__init__ with the phase offsets offs (centi-radians)
InitWith(offs) ==
    /\ current_w = IDLE_W * PX /\ current_h = IDLE_H * PX
    /\ target_w = IDLE_W * PX /\ target_h = IDLE_H * PX
    /\ vel_w = 0 /\ vel_h = 0
    /\ win_w = IDLE_W /\ win_h = IDLE_H
    /\ btn_anim = [k \in Keys |-> [scale |-> ONE \div 5, offset |-> 0]]
    /\ btn_hover_states = [k \in Keys |-> FALSE]
    /\ btn_hover_anims = [k \in Keys |-> 0]
    /\ vis_bars = [i \in Bars |-> 0]
    /\ vis_offsets = offs
    /\ vis_multiplier = 0
    /\ art_flip_progress = 0 /\ art_fade_progress = 0
    /\ is_flipping_art = FALSE /\ is_fading_art = FALSE
    /\ box_fade_anim = 0 /\ cd_rotation = 0
    /\ current_album_art = 0 /\ prev_album_art = 0 /\ last_img_bytes = 0
    /\ temp_mode_active = FALSE /\ temp_mode_start_time = 0 /\ temp_mode_progress = 0
    /\ text_change_progress = ONE
    /\ scroll_x = 0 /\ scroll_wait_timer = 0 /\ scroll_direction = 0
    /\ text_fits = TRUE /\ title_text_width = 0 /\ available_text_w = 0
    /\ idle_scale_anim = ONE
    /\ bar_hover_anim = 0 /\ is_bar_hovered = FALSE
    /\ is_expanded = FALSE /\ is_hovered = FALSE
    /\ expand_progress = 0
    /\ title_text = "Idle" /\ raw_title = "" /\ artist_text = 0
    /\ is_playing = FALSE /\ display_pos = 0 /\ media_dur = 0
    /\ now = StartTime * TU
    /\ last_tick_time = StartTime * TU
    /\ current_session = FALSE /\ pending = <<>> /\ inbox = <<>>
    /\ last_op = "init" /\ last_snap = NoSnap /\ last_dt = 0
    /\ update_pending = FALSE /\ tick_repaint = FALSE /\ tick_scrolling = FALSE
    /\ geom_update = TRUE
    /\ gui = "idle" /\ delivered = <<>>
    /\ ticks = 0
    /\ pre = PreState
    /\ since = [n |-> 0, dt_sum |-> 0, pos0 |-> 0]
    /\ stable = 0

\* ------------------------------------------------------------ the tick
\* mutant: the scroll step runs before the temp-mode step
TempFlagAtScroll_Stale(at_entry, after_temp_mode) == at_entry

\* game_loop calls _animate_temp_mode before _animate_scroll: the scroll step
\* reads temp_mode_active as the temp-mode step of the same tick left it
TempFlagAtScroll(at_entry, after_temp_mode) == after_temp_mode

\* DynamicIsland.game_loop, one timer callback; time.time() returns now_time
GameLoop(now_time) ==
    LET sp == AnimateSpring(current_w, current_h, vel_w, vel_h, is_expanded,
                            is_hovered, title_text, temp_mode_progress)
        btn == [k \in Keys |-> AnimateButton(btn_hover_states[k], btn_hover_anims[k],
                                             btn_anim[k])]
        btns_moving == \E k \in Keys : btn[k].moving
        flip == ArtCounter(is_flipping_art, art_flip_progress, ONE \div 20)
        fade == ArtCounter(is_fading_art, art_fade_progress, ONE \div 25)
        dt == TickDt(now_time, last_tick_time)
        target_expand == IF is_expanded THEN ONE ELSE 0
        ep == Ease(expand_progress, target_expand, 1, 10)
        expand_animating == Abs(ep - target_expand) > ONE \div 1000
        tm == AnimateTempMode(temp_mode_active, temp_mode_start_time,
                              temp_mode_progress, now_time)
        tcp == Ease(text_change_progress, ONE, 1, 10)
        text_changing == tcp < ONE - ONE \div 100
        bf == Ease(box_fade_anim, ONE, 5, 100)
        box_fading == bf < ONE - ONE \div 100
        should_scroll == /\ \/ is_expanded
                            \/ TempFlagAtScroll(temp_mode_active, tm.active)
                         /\ ~text_fits
        sc == AnimateScroll(scroll_x, scroll_wait_timer, scroll_direction,
                            should_scroll, title_text_width, available_text_w, dt)
        vm == Ease(vis_multiplier, IF is_playing THEN ONE ELSE 0, 1, 10)
        target_bar == IF is_bar_hovered THEN ONE ELSE 0
        bh == Ease(bar_hover_anim, target_bar, 2, 10)
        target_idle_scale == IF title_text = "Idle" THEN ONE ELSE 0
        isa == Ease(idle_scale_anim, target_idle_scale, 1, 10)
        idle_animating == Abs(isa - target_idle_scale) > ONE \div 100
        should_repaint ==
            ShouldRepaint(is_playing, vm, flip.active, fade.active, btns_moving,
                          tm.animating, text_changing, box_fading, tm.active,
                          Abs(bh - target_bar), sc.scrolling, idle_animating,
                          expand_animating)
    IN  /\ current_w' = sp.current_w /\ current_h' = sp.current_h
        /\ target_w' = sp.target_w /\ target_h' = sp.target_h
        /\ vel_w' = sp.vel_w /\ vel_h' = sp.vel_h
        /\ win_w' = IF sp.geom THEN IntPx(sp.current_w) ELSE win_w
        /\ win_h' = IF sp.geom THEN IntPx(sp.current_h) ELSE win_h
        /\ geom_update' = sp.geom
        /\ btn_anim' = [k \in Keys |-> [scale |-> btn[k].scale, offset |-> btn[k].offset]]
        /\ btn_hover_anims' = [k \in Keys |-> btn[k].hover_anim]
        /\ art_flip_progress' = flip.progress /\ is_flipping_art' = flip.active
        /\ art_fade_progress' = fade.progress /\ is_fading_art' = fade.active
        /\ last_tick_time' = now_time
        /\ last_dt' = dt
        /\ expand_progress' = ep
        /\ temp_mode_active' = tm.active /\ temp_mode_progress' = tm.progress
        /\ text_change_progress' = tcp
        /\ box_fade_anim' = bf
        /\ scroll_x' = sc.scroll_x /\ scroll_wait_timer' = sc.timer
        /\ scroll_direction' = sc.dir
        /\ tick_scrolling' = sc.scrolling
        /\ vis_multiplier' = vm
        /\ vis_bars' = [i \in Bars |-> AnimateBar(i, vis_bars[i], vis_offsets[i],
                                                  is_playing, now_time)]
        /\ bar_hover_anim' = bh
        /\ idle_scale_anim' = isa
        /\ cd_rotation' = IF is_playing THEN (cd_rotation + 15) % 3600 ELSE cd_rotation
        /\ display_pos' = AdvancePos(display_pos, is_playing, media_dur, dt)
        /\ tick_repaint' = should_repaint
        /\ update_pending' = \/ update_pending
                              \/ should_repaint
                              \/ (sp.geom /\ <<IntPx(sp.current_w), IntPx(sp.current_h)>>
                                              # <<win_w, win_h>>)
        /\ last_op' = "tick"
        /\ now' = now_time
        /\ UNCHANGED <<btn_hover_states, vis_offsets, current_album_art, prev_album_art,
                       last_img_bytes, temp_mode_start_time, metricVars, hoverVars,
                       mediaVars, workerVars, last_snap, is_expanded, is_playing,
                       delivered>>

\* ------------------------------------------------------------ the worker
\* mutant: the coroutine is scheduled whether or not a session is known
WorkerIssue_Unchecked(cmd) == Append(pending, cmd)

\* MediaWorker.toggle_media / next_track / prev_track / seek_to: schedule the
\* coroutine on the worker loop only when a session is known
WorkerIssue(cmd) == IF current_session THEN Append(pending, cmd) ELSE pending

\* the snapshot emitted when there is no session
IdleSnap == [title |-> "Idle", artist |-> 0, is_playing |-> FALSE, pos |-> 0,
             dur |-> 0, img |-> 0]

\* ------------------------------------------------------------ snapshots
\* QPixmap.loadFromData fails on these image ids
UndecodableImgs == {3}

\* mutant: the drift test reads is_playing after the snapshot's value is stored
SyncPosition_PlayFirst(track_changed, pos, playing, remote_pos, remote_playing) ==
    LET diff == Abs(remote_pos - pos)
        is_glitch_zero == (remote_pos = 0 /\ pos > 5 * TU)
    IN  IF track_changed
        THEN [pos |-> remote_pos, playing |-> remote_playing]
        ELSE IF ~is_glitch_zero
        THEN [pos |-> IF diff > 5 * TU \/ (~remote_playing /\ diff > TU \div 2)
                      THEN remote_pos ELSE pos,
              playing |-> remote_playing]
        ELSE [pos |-> pos, playing |-> playing]

\* mutant: no glitch filter
SyncPosition_NoGlitch(track_changed, pos, playing, remote_pos, remote_playing) ==
    LET diff == Abs(remote_pos - pos)
    IN  IF track_changed
        THEN [pos |-> remote_pos, playing |-> remote_playing]
        ELSE [pos |-> IF diff > 5 * TU \/ (~playing /\ diff > TU \div 2)
                      THEN remote_pos ELSE pos,
              playing |-> remote_playing]

\* mutant: the glitch filter is tested before the track change
SyncPosition_GlitchFirst(track_changed, pos, playing, remote_pos, remote_playing) ==
    LET diff == Abs(remote_pos - pos)
        is_glitch_zero == (remote_pos = 0 /\ pos > 5 * TU)
    IN  IF is_glitch_zero
        THEN [pos |-> pos, playing |-> playing]
        ELSE IF track_changed
        THEN [pos |-> remote_pos, playing |-> remote_playing]
        ELSE [pos |-> IF diff > 5 * TU \/ (~playing /\ diff > TU \div 2)
                      THEN remote_pos ELSE pos,
              playing |-> remote_playing]

\* DynamicIsland.on_metadata_sync: position / play-state reconciliation
SyncPosition(track_changed, pos, playing, remote_pos, remote_playing) ==
    LET diff == Abs(remote_pos - pos)
        is_glitch_zero == (remote_pos = 0 /\ pos > 5 * TU)
    IN  IF track_changed
        THEN [pos |-> remote_pos, playing |-> remote_playing]
        ELSE IF ~is_glitch_zero
        THEN [pos |-> IF diff > 5 * TU \/ (~playing /\ diff > TU \div 2)
                      THEN remote_pos ELSE pos,
              playing |-> remote_playing]
        ELSE [pos |-> pos, playing |-> playing]

\* mutant: the reset forgets to re-arm the wait timer
SyncScroll_KeepTimer(track_changed, sx, timer, dir) ==
    IF track_changed THEN [scroll_x |-> 0, timer |-> timer, dir |-> 0]
    ELSE [scroll_x |-> sx, timer |-> timer, dir |-> dir]

\* mutant: every snapshot restarts the marquee
SyncScroll_EverySnapshot(track_changed, sx, timer, dir) ==
    [scroll_x |-> 0, timer |-> 5 * TU, dir |-> 0]

\* DynamicIsland.on_metadata_sync: scroll reset on a track change
SyncScroll(track_changed, sx, timer, dir) ==
    IF track_changed THEN [scroll_x |-> 0, timer |-> 5 * TU, dir |-> 0]
    ELSE [scroll_x |-> sx, timer |-> timer, dir |-> dir]

\* mutant: every track change starts temp mode
SyncTempMode_AnyTitle(track_changed, title, active) ==
    IF track_changed THEN TRUE ELSE active

\* DynamicIsland.on_metadata_sync: temp_mode_active after the snapshot
SyncTempMode(track_changed, title, active) ==
    IF track_changed THEN title # "Idle" ELSE active

\* mutant: any non-empty artwork bytes are taken as new artwork
ArtChange_AnyBytes(img, last) ==
    [new |-> img # 0 /\ img \notin UndecodableImgs,
     removed |-> img = 0 /\ last # 0]

\* DynamicIsland.on_metadata_sync: which artwork branch a snapshot takes.  img
\* and last identify byte strings, 0 the empty one (b"" or None)
ArtChange(img, last) ==
    [new |-> img # 0 /\ img # last /\ img \notin UndecodableImgs,
     removed |-> img = 0 /\ last # 0]

\* DynamicIsland.on_metadata_sync(title, artist, is_playing, remote_pos, dur, img_bytes)
\* (artist is the length of the artist string, artist_text the length shown)
OnMetadataSync(snap) ==
    LET track_changed == (raw_title # snap.title)
        ac == ArtChange(snap.img, last_img_bytes)
        new_art == ac.new
        art_removed == ac.removed
        art_reset == new_art \/ art_removed
        ss == SyncScroll(track_changed, scroll_x, scroll_wait_timer, scroll_direction)
        sy == SyncPosition(track_changed, display_pos, is_playing, snap.pos,
                           snap.is_playing)
    IN  /\ raw_title' = snap.title
        /\ title_text' = snap.title
        /\ artist_text' = IF snap.artist > 40 THEN 43 ELSE snap.artist
        /\ media_dur' = snap.dur
        /\ temp_mode_active' = SyncTempMode(track_changed, snap.title, temp_mode_active)
        /\ temp_mode_start_time' = IF track_changed /\ snap.title # "Idle" THEN now
                                   ELSE temp_mode_start_time
        /\ text_change_progress' = IF track_changed THEN 0 ELSE text_change_progress
        /\ scroll_x' = ss.scroll_x /\ scroll_wait_timer' = ss.timer
        /\ scroll_direction' = ss.dir
        /\ prev_album_art' = IF art_reset THEN current_album_art ELSE prev_album_art
        /\ current_album_art' = IF new_art THEN snap.img
                                ELSE IF art_removed THEN 0 ELSE current_album_art
        /\ last_img_bytes' = IF new_art THEN snap.img
                             ELSE IF art_removed THEN 0 ELSE last_img_bytes
        /\ art_flip_progress' = IF art_reset THEN 0 ELSE art_flip_progress
        /\ is_flipping_art' = (art_reset \/ is_flipping_art)
        /\ art_fade_progress' = IF art_reset THEN 0 ELSE art_fade_progress
        /\ is_fading_art' = (art_reset \/ is_fading_art)
        /\ box_fade_anim' = IF art_reset THEN 0 ELSE box_fade_anim
        /\ display_pos' = sy.pos
        /\ is_playing' = sy.playing
        /\ update_pending' = TRUE
        /\ last_op' = "meta" /\ last_snap' = snap
        /\ UNCHANGED <<physVars, btnVars, visVars, cd_rotation, temp_mode_progress,
                       metricVars, hoverVars, animVars, is_expanded, last_tick_time,
                       now, last_dt, tick_repaint, tick_scrolling, geom_update,
                       delivered>>

\* ------------------------------------------------------------ the hand-off
\* the thread the widget lives in and the thread that runs the worker's loop
WidgetThread == "gui"
WorkerThread == "worker"

\* mutant: the signal is connected directly
SignalQueued_Direct(emitter, receiver) == FALSE

\* metadata_updated.connect(on_metadata_sync) with the default connection type:
\* the call is queued when the emitting thread is not the receiver's thread
SignalQueued(emitter, receiver) == emitter # receiver

\* metadata_updated.emit(...) on the worker's thread
EmitMetadata(snap, op) ==
    IF SignalQueued(WorkerThread, WidgetThread)
    THEN /\ inbox' = Append(inbox, snap)
         /\ last_op' = op
         /\ UNCHANGED <<physVars, btnVars, visVars, artVars, tempVars, scrollVars,
                        metricVars, hoverVars, mediaVars, animVars, last_snap, last_dt,
                        update_pending, tick_repaint, tick_scrolling, geom_update,
                        is_expanded, is_playing, display_pos, last_tick_time, now,
                        delivered>>
    ELSE /\ OnMetadataSync(snap)
         /\ inbox' = inbox

\* MediaWorker._poll_media, one iteration of the polling loop.  outcome:
\*   "session"  a session is found and its snapshot snap is emitted
\*   "none"     no session: the Idle snapshot is emitted
\*   "error"    request_async raises: nothing assigned, nothing emitted
\*   "late"     an await after current_session is assigned raises
PollMedia(outcome, snap) ==
    /\ current_session' = IF outcome \in {"session", "late"} THEN TRUE
                           ELSE IF outcome = "none" THEN FALSE
                           ELSE current_session
    /\ pending' = pending
    /\ IF outcome = "session" THEN EmitMetadata(snap, "poll_session")
       ELSE IF outcome = "none" THEN EmitMetadata(IdleSnap, "poll_none")
       ELSE /\ inbox' = inbox
            /\ last_op' = IF outcome = "late" THEN "poll_late" ELSE "poll_error"
            /\ UNCHANGED <<physVars, btnVars, visVars, artVars, tempVars, scrollVars,
                           metricVars, hoverVars, mediaVars, animVars, last_snap,
                           last_dt, update_pending, tick_repaint, tick_scrolling,
                           geom_update, is_expanded, is_playing, display_pos,
                           last_tick_time, now, delivered>>

\* a coroutine scheduled by toggle_media / next_track / prev_track / seek_to
\* runs on the worker's loop: the call on current_session raises when the
\* session is None, or fails in the collaborator (ok false); either way the
\* bare except swallows it
WorkerRun(ok) ==
    /\ pending # <<>>
    /\ pending' = Tail(pending)
    /\ delivered' = IF current_session /\ ok THEN Append(delivered, Head(pending))
                    ELSE delivered
    /\ last_op' = "run"
    /\ UNCHANGED <<physVars, btnVars, visVars, artVars, tempVars, scrollVars,
                   metricVars, hoverVars, mediaVars, animVars, current_session, inbox,
                   last_snap, last_dt, update_pending, tick_repaint, tick_scrolling,
                   geom_update, is_expanded, is_playing, display_pos,
                   last_tick_time, now>>

\* the queued metadata_updated signal is delivered on the widget's thread
DeliverMetadata ==
    /\ inbox # <<>>
    /\ OnMetadataSync(Head(inbox))
    /\ inbox' = Tail(inbox)
    /\ UNCHANGED <<current_session, pending>>

\* ------------------------------------------------------------ pointer
\* QRectF(x, y, w, h).contains(pos); all coordinates doubled (half pixels)
RectContains(px, py, x, y, w, h) ==
    LET l == IF w < 0 THEN x + w ELSE x
        r == IF w < 0 THEN x ELSE x + w
        t == IF h < 0 THEN y + h ELSE y
        b == IF h < 0 THEN y ELSE y + h
    IN  /\ l # r /\ t # b
        /\ px >= l /\ px <= r /\ py >= t /\ py <= b

\* the transport-button rectangle around (center_x + dx, btn_y), doubled
BtnRect(px, py, dx, hit) ==
    LET bar_w == win_w - 240
        cx2 == 2 * 220 + bar_w + 2 * dx
        by2 == 2 * (win_h - BTNYPOS)
    IN  RectContains(2 * px, 2 * py, cx2 - hit, by2 - hit, 2 * hit, 2 * hit)

\* DynamicIsland.enterEvent
EnterEvent ==
    /\ is_hovered' = TRUE
    /\ last_op' = "enter"
    /\ UNCHANGED <<physVars, btnVars, visVars, artVars, tempVars, scrollVars,
                   metricVars, is_bar_hovered, mediaVars, animVars, workerVars,
                   last_snap, last_dt, update_pending, tick_repaint, tick_scrolling,
                   geom_update, is_expanded, is_playing, display_pos,
                   last_tick_time, now, delivered>>

\* DynamicIsland.leaveEvent
LeaveEvent ==
    /\ is_hovered' = FALSE
    /\ is_expanded' = FALSE
    /\ last_op' = "leave"
    /\ UNCHANGED <<physVars, btnVars, visVars, artVars, tempVars, scrollVars,
                   metricVars, is_bar_hovered, mediaVars, animVars, workerVars,
                   last_snap, last_dt, update_pending, tick_repaint, tick_scrolling,
                   geom_update, is_playing, display_pos, last_tick_time, now,
                   delivered>>

\* DynamicIsland.mouseMoveEvent at pixel (px, py)
MouseMoveEvent(px, py) ==
    LET controls == is_expanded /\ title_text # "Idle"
        bar_y == win_h - BARYPOS
        bar_w == win_w - 240
    IN  /\ is_bar_hovered' = (controls /\ RectContains(2 * px, 2 * py, 2 * 220,
                                          2 * (bar_y - 20), 2 * bar_w, 2 * 25))
        /\ btn_hover_states' =
              [k \in Keys |-> controls /\
                  BtnRect(px, py, IF k = "prev" THEN -60 ELSE IF k = "next" THEN 60 ELSE 0, 50)]
        /\ last_op' = "move"
        /\ UNCHANGED <<physVars, btn_anim, btn_hover_anims, visVars, artVars, tempVars,
                       scrollVars, metricVars, is_hovered, mediaVars, animVars,
                       workerVars, last_snap, last_dt, update_pending, tick_repaint,
                       tick_scrolling, geom_update, is_expanded, is_playing,
                       display_pos, last_tick_time, now, delivered>>

\* mutant: the media controls are hit-tested whatever the island shows
PressTarget_AlwaysControls(px, py) ==
    LET bar_y == win_h - BARYPOS
        bar_w == win_w - 240
    IN  IF RectContains(2 * px, 2 * py, 2 * 220, 2 * (bar_y - 15), 2 * bar_w, 2 * 15)
        THEN "seek"
        ELSE IF BtnRect(px, py, 0, 40) THEN "play"
        ELSE IF BtnRect(px, py, -60, 40) THEN "prev"
        ELSE IF BtnRect(px, py, 60, 40) THEN "next"
        ELSE "toggle"

\* mousePressEvent: which branch a left click at (px, py) takes
PressTarget(px, py) ==
    LET bar_y == win_h - BARYPOS
        bar_w == win_w - 240
    IN  IF ~(is_expanded /\ title_text # "Idle") THEN "toggle"
        ELSE IF RectContains(2 * px, 2 * py, 2 * 220, 2 * (bar_y - 15), 2 * bar_w, 2 * 15)
        THEN "seek"
        ELSE IF BtnRect(px, py, 0, 40) THEN "play"
        ELSE IF BtnRect(px, py, -60, 40) THEN "prev"
        ELSE IF BtnRect(px, py, 60, 40) THEN "next"
        ELSE "toggle"

\* mutant: the click leaves the position to the next snapshot
SeekTime_Deferred(px) == display_pos

\* mousePressEvent: pct * media_dur for a click on the seek bar
SeekTime(px) ==
    LET bar_w == win_w - 240
        rel_x == px - 220
    IN  IF bar_w = 0 THEN 0
        ELSE IF (rel_x > 0) # (bar_w > 0) \/ rel_x = 0 THEN 0
        ELSE IF Abs(rel_x) >= Abs(bar_w) THEN media_dur
        ELSE MulDiv(media_dur, Abs(rel_x), Abs(bar_w))

\* mutant: the collapsing click kicks as hard as the expanding one
ToggleKick_Symmetric(expands) == IF expands THEN 10 * PX ELSE -10 * PX

\* mousePressEvent: the velocity impulse of the expand / collapse toggle
ToggleKick(expands) == IF expands THEN 10 * PX ELSE -5 * PX

\* mutant: the click leaves is_playing to the next snapshot
ClickPlaying_Deferred(hit, playing) == playing

\* mousePressEvent: is_playing after a click; the play button flips it at once
ClickPlaying(hit, playing) == IF hit = "play" THEN ~playing ELSE playing

\* DynamicIsland.mousePressEvent, left button, at pixel (px, py)
MousePressEvent(px, py) ==
    LET hit == PressTarget(px, py)
        expands == ~is_expanded
        kick == ToggleKick(expands)
    IN  /\ display_pos' = IF hit = "seek" THEN SeekTime(px) ELSE display_pos
        /\ is_playing' = ClickPlaying(hit, is_playing)
        /\ btn_anim' =
              IF hit = "play" THEN [btn_anim EXCEPT !["play"].scale = (8 * ONE) \div 10]
              ELSE IF hit = "prev"
              THEN [btn_anim EXCEPT !["prev"] = [scale |-> (8 * ONE) \div 10, offset |-> -8 * ONE]]
              ELSE IF hit = "next"
              THEN [btn_anim EXCEPT !["next"] = [scale |-> (8 * ONE) \div 10, offset |-> 8 * ONE]]
              ELSE btn_anim
        /\ pending' = IF hit = "seek" THEN WorkerIssue(<<"seek", SeekTime(px)>>)
                      ELSE IF hit = "play" THEN WorkerIssue(<<"toggle", 0>>)
                      ELSE IF hit = "prev" THEN WorkerIssue(<<"prev", 0>>)
                      ELSE IF hit = "next" THEN WorkerIssue(<<"next", 0>>)
                      ELSE pending
        /\ update_pending' = (update_pending \/ hit # "toggle")
        /\ is_expanded' = IF hit = "toggle" THEN expands ELSE is_expanded
        /\ vel_w' = IF hit = "toggle" THEN vel_w + kick ELSE vel_w
        /\ vel_h' = IF hit = "toggle" THEN vel_h + kick ELSE vel_h
        /\ last_op' = IF hit = "toggle" THEN "press" ELSE hit
        /\ UNCHANGED <<current_w, current_h, target_w, target_h, win_w, win_h,
                       btn_hover_states, btn_hover_anims, visVars, artVars, tempVars,
                       scrollVars, metricVars, hoverVars, mediaVars, animVars,
                       current_session, inbox, last_snap, last_dt, tick_repaint,
                       tick_scrolling, geom_update, last_tick_time, now, delivered>>

\* ------------------------------------------------------------ renderer
\* QFontMetrics.horizontalAdvance(title) in pixels, for the collapsed (10 pt)
\* and the expanded (13 pt) title font
TitleWidth(title, expanded_font) ==
    IF title = "A" THEN (IF expanded_font THEN 300 ELSE 280)
    ELSE IF title = "B" THEN (IF expanded_font THEN 120 ELSE 100)
    ELSE 30

\* mutant: the fits flag is not derived from the two widths
DrawScrollingText_AlwaysFits(rect_w, text_w) ==
    [title_text_width |-> text_w * SPX, available_text_w |-> rect_w * SPX,
     text_fits |-> TRUE]

\* MediaRenderer._draw_scrolling_text: the metrics written back to the widget
DrawScrollingText(rect_w, text_w) ==
    [title_text_width |-> text_w * SPX, available_text_w |-> rect_w * SPX,
     text_fits |-> (text_w <= rect_w)]

\* mutant: the collapsed layer fades out linearly up to progress 0.8
CollapsedLayer_FadeToEnd(progress) ==
    [drawn |-> ~(progress >= (8 * ONE) \div 10),
     opacity |-> Max(0, ONE - MulDiv(progress, 10, 8))]

\* MediaRenderer._render_collapsed_content: whether the layer is drawn at
\* this expand progress, and the opacity set for it
CollapsedLayer(progress) ==
    [drawn |-> ~(progress >= (8 * ONE) \div 10),
     opacity |-> Max(0, ONE - progress * 3)]

\* MediaRenderer._render_expanded_content: the same for the expanded layer
ExpandedLayer(progress) ==
    [drawn |-> ~(progress <= (2 * ONE) \div 10),
     opacity |-> Max(0, Min(ONE, MulDiv(progress - (2 * ONE) \div 10, 10, 8)))]

\* MediaRenderer.render: the calls of _draw_scrolling_text of one paint, in order
PaintCalls ==
    LET collapsed == /\ CollapsedLayer(expand_progress).drawn
                     /\ win_w > 120
                     /\ temp_mode_progress > ONE \div 100
        expanded == /\ ExpandedLayer(expand_progress).drawn
                    /\ title_text # "Idle"
    IN  (IF collapsed
         THEN <<DrawScrollingText(win_w - 90, TitleWidth(title_text, FALSE))>>
         ELSE <<>>)
        \o
        (IF expanded
         THEN <<DrawScrollingText((win_w - 220 - 20) - 40, TitleWidth(title_text, TRUE))>>
         ELSE <<>>)

\* DynamicIsland.paintEvent -> MediaRenderer.render
PaintEvent ==
    LET calls == PaintCalls
        m == IF calls = <<>>
             THEN [title_text_width |-> title_text_width,
                   available_text_w |-> available_text_w, text_fits |-> text_fits]
             ELSE calls[Len(calls)]
    IN  /\ title_text_width' = m.title_text_width
        /\ available_text_w' = m.available_text_w
        /\ text_fits' = m.text_fits
        /\ update_pending' = FALSE
        /\ last_op' = "paint"
        /\ UNCHANGED <<physVars, btnVars, visVars, artVars, tempVars, scrollVars,
                       hoverVars, mediaVars, animVars, workerVars, last_snap, last_dt,
                       tick_repaint, tick_scrolling, geom_update, is_expanded,
                       is_playing, display_pos, last_tick_time, now, delivered>>

\* ------------------------------------------------------------ the clock
\* time.time() moves by d ms between two callbacks
Elapse(d) ==
    /\ now' = now + d
    /\ UNCHANGED <<physVars, btnVars, visVars, artVars, tempVars, scrollVars,
                   metricVars, hoverVars, mediaVars, animVars, workerVars, obsVars,
                   is_expanded, is_playing, display_pos, last_tick_time, delivered>>

\* ------------------------------------------------------------ steps
\* One step of a run: a handler, plus the run bookkeeping.  Queued events
\* (a delivered signal, a requested paint) are handled before the next timer
\* callback, as the Qt event loop sends posted events before it fires timers.

MaxInbox == 1

PollStepCap(outcome, snap, cap) ==
    /\ budget > 0
    /\ Len(inbox) < cap
    /\ PollMedia(outcome, snap)
    /\ budget' = budget - 1
    /\ UNCHANGED <<gui, ticks, pre, since, stable>>

PollStep(outcome, snap) == PollStepCap(outcome, snap, MaxInbox)

DeliverStep ==
    /\ gui = "idle"
    /\ DeliverMetadata
    /\ UNCHANGED gui
    /\ pre' = PreState
    /\ since' = [n |-> 0, dt_sum |-> 0, pos0 |-> display_pos']
    /\ UNCHANGED <<budget, ticks, stable>>

\* a timer callback after a suspension of d ms (more than a second)
SleepStep(d, limit) ==
    /\ gui = "idle" /\ UNCHANGED gui
    /\ budget > 0
    /\ ticks < limit
    /\ inbox = <<>>
    /\ ~update_pending
    /\ GameLoop(now + d)
    /\ budget' = budget - 1
    /\ ticks' = ticks + 1
    /\ pre' = PreState
    /\ since' = [since EXCEPT !.n = @ + 1, !.dt_sum = @ + last_dt']
    /\ stable' = IF <<target_w', target_h'>> = <<target_w, target_h>>
                 THEN stable + 1 ELSE 0

\* a timer callback d ms after the previous handler
TickStep(d, limit) ==
    /\ gui = "idle" /\ UNCHANGED gui
    /\ ticks < limit
    /\ inbox = <<>>
    /\ ~update_pending
    /\ GameLoop(now + d)
    /\ ticks' = ticks + 1
    /\ pre' = PreState
    /\ since' = [since EXCEPT !.n = @ + 1, !.dt_sum = @ + last_dt']
    /\ stable' = IF <<target_w', target_h'>> = <<target_w, target_h>>
                 THEN stable + 1 ELSE 0
    /\ UNCHANGED budget

\* the timer callback is entered: the widget's thread is inside game_loop
\* until TickEndStep
TickBeginStep(limit) ==
    /\ gui = "idle"
    /\ ticks < limit
    /\ gui' = "tick"
    /\ last_op' = "tick_begin"
    /\ UNCHANGED <<physVars, btnVars, visVars, artVars, tempVars, scrollVars,
                   metricVars, hoverVars, mediaVars, animVars, workerVars, last_snap,
                   last_dt, update_pending, tick_repaint, tick_scrolling, geom_update,
                   delivered, is_expanded, is_playing, display_pos, last_tick_time,
                   now, budget, ticks, pre, since, stable>>

\* the timer callback returns, d ms after the previous handler
TickEndStep(d) ==
    /\ gui = "tick"
    /\ GameLoop(now + d)
    /\ gui' = "idle"
    /\ ticks' = ticks + 1
    /\ pre' = PreState
    /\ since' = [since EXCEPT !.n = @ + 1, !.dt_sum = @ + last_dt']
    /\ stable' = IF <<target_w', target_h'>> = <<target_w, target_h>>
                 THEN stable + 1 ELSE 0
    /\ UNCHANGED budget

\* a scheduled coroutine runs on the worker's loop
RunStep(ok) ==
    /\ WorkerRun(ok)
    /\ UNCHANGED <<gui, budget, ticks, pre, since, stable>>

PaintStep ==
    /\ gui = "idle" /\ UNCHANGED gui
    /\ update_pending
    /\ PaintEvent
    /\ UNCHANGED <<budget, ticks, pre, since, stable>>

ElapseStep(d) ==
    /\ Elapse(d)
    /\ UNCHANGED gui
    /\ UNCHANGED <<budget, ticks, pre, since, stable>>

EnterStep ==
    /\ gui = "idle" /\ UNCHANGED gui
    /\ budget > 0
    /\ ~is_hovered
    /\ EnterEvent
    /\ budget' = budget - 1
    /\ pre' = PreState
    /\ since' = [n |-> 0, dt_sum |-> 0, pos0 |-> display_pos']
    /\ UNCHANGED <<ticks, stable>>

LeaveStep ==
    /\ gui = "idle" /\ UNCHANGED gui
    /\ budget > 0
    /\ is_hovered
    /\ LeaveEvent
    /\ budget' = budget - 1
    /\ pre' = PreState
    /\ since' = [n |-> 0, dt_sum |-> 0, pos0 |-> display_pos']
    /\ UNCHANGED <<ticks, stable>>

MoveStep(px, py) ==
    /\ gui = "idle" /\ UNCHANGED gui
    /\ budget > 0
    /\ is_hovered
    /\ MouseMoveEvent(px, py)
    /\ budget' = budget - 1
    /\ pre' = PreState
    /\ since' = [n |-> 0, dt_sum |-> 0, pos0 |-> display_pos']
    /\ UNCHANGED <<ticks, stable>>

PressStep(px, py) ==
    /\ gui = "idle" /\ UNCHANGED gui
    /\ budget > 0
    /\ MousePressEvent(px, py)
    /\ budget' = budget - 1
    /\ pre' = PreState
    /\ since' = [n |-> 0, dt_sum |-> 0, pos0 |-> display_pos']
    /\ stable' = IF PressTarget(px, py) = "toggle" THEN 0 ELSE stable
    /\ UNCHANGED ticks

\* phase offsets of the modelled bars (centi-radians)
Offsets == [i \in Bars |-> 1234 + 2500 * i]

\* ------------------------------------------------------------ SpecSync
\* Snapshots with varied positions against a ticking widget.
SyncEvents == 2
SyncTicks == 5
SyncPositions == {0, 10 * TU, 10 * TU + 3 * (TU \div 10), 11 * TU, 20 * TU, 50 * TU}
SyncSnaps ==
    {[title |-> t, artist |-> 0, is_playing |-> p, pos |-> x, dur |-> 200 * TU, img |-> 0] :
        t \in {"A", "B"}, p \in BOOLEAN, x \in SyncPositions}

InitSync == InitWith(Offsets) /\ budget = SyncEvents

NextSync ==
    \/ \E s \in SyncSnaps : PollStep("session", s)
    \/ DeliverStep
    \/ TickStep(TU, SyncTicks)
    \/ PaintStep

SpecSync == InitSync /\ [][NextSync]_vars

\* ------------------------------------------------------------ SpecScroll
\* A long title in the expanded island, ticked once a second while the spring
\* is still resizing the window, with a track change, a click on the island
\* or a suspension at any moment.
ScrollEvents == 3
ScrollTicks == 13
SnapA == [title |-> "A", artist |-> 0, is_playing |-> TRUE, pos |-> 0,
          dur |-> 200 * TU, img |-> 1]
SnapB == [title |-> "B", artist |-> 0, is_playing |-> TRUE, pos |-> 0,
          dur |-> 200 * TU, img |-> 1]
\* a click on the body of the island, away from the media controls
BodyX == 100
BodyY == 10
\* a suspension, ms
SleepMs == 1500

InitScroll == InitWith(Offsets) /\ budget = ScrollEvents

NextScroll ==
    \/ \E s \in {SnapA, SnapB} : PollStep("session", s)
    \/ DeliverStep
    \/ TickStep(TU, ScrollTicks)
    \/ SleepStep(SleepMs, ScrollTicks)
    \/ PaintStep
    \/ PressStep(BodyX, BodyY)

SpecScroll == InitScroll /\ [][NextScroll]_vars

\* max_scroll as _animate_scroll computes it from the last reported metrics
MaxScroll == Max(0, title_text_width - available_text_w)

\* C1: at the end of every tick 0 <= scroll_x <= max_scroll, max_scroll being
\* max(0, text width - available width) as last reported by the renderer.
C1_ScrollWithinBounds ==
    last_op = "tick" => (0 <= scroll_x /\ scroll_x <= MaxScroll)

\* the last handler was on_metadata_sync, with or without a track change
AfterSnapshot == last_op = "meta"
TrackChanged == last_snap.title # pre.raw_title
GlitchZero == last_snap.pos = 0 /\ pre.display_pos > 5 * TU
Drift == Abs(last_snap.pos - pre.display_pos)

\* C2: a non-glitch snapshot of the same title overwrites local_pos with
\* remote_pos exactly when the drift exceeds 5.0 s, or local is_playing (before
\* the snapshot) is false and the drift exceeds 0.5 s; otherwise local_pos is
\* kept.  Either way is_playing becomes the snapshot's.
C2_PositionAdoption ==
    (AfterSnapshot /\ ~TrackChanged /\ ~GlitchZero) =>
        /\ display_pos = IF Drift > 5 * TU \/ (~pre.is_playing /\ Drift > TU \div 2)
                         THEN last_snap.pos ELSE pre.display_pos
        /\ is_playing = last_snap.is_playing

\* playing, local 10.0, remote 10.3: local 10.0 is kept
C2_Witness ==
    /\ AfterSnapshot /\ ~TrackChanged
    /\ pre.is_playing /\ pre.display_pos = 10 * TU
    /\ last_snap.pos = 10 * TU + 3 * (TU \div 10)
    /\ display_pos = 10 * TU
    /\ ~last_snap.is_playing /\ ~is_playing

\* C3: glitch suppression: same title, remote_pos = 0 and local_pos > 5 leave
\* local_pos unchanged, whatever the two is_playing values are.
C3_GlitchSuppressed ==
    (AfterSnapshot /\ ~TrackChanged /\ GlitchZero) => display_pos = pre.display_pos

\* local 50.0, remote 0.0, the play states differing
C3_Witness ==
    /\ AfterSnapshot /\ ~TrackChanged /\ GlitchZero
    /\ pre.display_pos = 50 * TU /\ display_pos = 50 * TU
    /\ ~pre.is_playing /\ last_snap.is_playing

\* C4: a snapshot with a new title adopts remote_pos and the snapshot's
\* is_playing unconditionally, also when remote_pos = 0 and local_pos > 5.
C4_TrackChangeAdopts ==
    (AfterSnapshot /\ TrackChanged) =>
        /\ display_pos = last_snap.pos
        /\ is_playing = last_snap.is_playing

\* a track change whose position report looks like a glitch
C4_Witness ==
    /\ AfterSnapshot /\ TrackChanged /\ GlitchZero
    /\ pre.display_pos = 50 * TU /\ display_pos = 0
    /\ pre.is_playing /\ ~is_playing

\* C5: a snapshot with a new title leaves scroll_x = 0, wait_timer = 5.0 and
\* the scroll state WAIT, whatever the scroll state was before.
C5_TrackChangeResetsScroll ==
    (AfterSnapshot /\ TrackChanged) =>
        /\ scroll_x = 0
        /\ scroll_wait_timer = 5 * TU
        /\ scroll_direction = 0

\* the track change arrives while the title is scrolling forward
C5_Witness ==
    /\ AfterSnapshot /\ TrackChanged
    /\ pre.scroll_direction = 1 /\ pre.scroll_x > 0 /\ pre.scroll_wait_timer = 0
    /\ scroll_x = 0 /\ scroll_wait_timer = 5 * TU

\* the last handler was game_loop; its clock reading is last_tick_time
AfterTick == last_op = "tick"
SleptTick == AfterTick /\ last_tick_time - pre.last_tick_time > 1 * TU
ScrollEligible == (is_expanded \/ temp_mode_active) /\ ~text_fits

\* C9: every tick stores its clock reading in last_tick_time and hands on
\* dt = now - (the previous last_tick_time), or 0 when that exceeds 1.0 s;
\* such a tick advances neither local_pos nor, while scrolling is eligible,
\* scroll_x (unless it clamps a value beyond max_scroll) or the wait timer.
C9_SleepGuard ==
    AfterTick =>
        /\ last_tick_time = now
        /\ last_dt = IF now - pre.last_tick_time > 1 * TU THEN 0
                     ELSE now - pre.last_tick_time
        /\ SleptTick =>
              /\ display_pos = pre.display_pos
              /\ ScrollEligible =>
                    /\ \/ scroll_x = pre.scroll_x
                       \/ (pre.scroll_x > MaxScroll /\ scroll_x = MaxScroll)
                    /\ scroll_wait_timer >= pre.scroll_wait_timer

\* a suspension while the title is waiting to scroll and the track is playing
C9_Witness ==
    /\ SleptTick /\ last_dt = 0
    /\ ScrollEligible /\ pre.scroll_wait_timer > 0
    /\ scroll_wait_timer = pre.scroll_wait_timer
    /\ is_playing /\ media_dur > 0 /\ display_pos > 0
    /\ display_pos = pre.display_pos

\* ------------------------------------------------------------ SpecTick
\* Ticks at varied intervals (a repeated timestamp, a full second, a
\* suspension) around a snapshot.
TickEvents == 2
TickTicks == 6
TickDts == {0, TU}
TickSnaps ==
    {[title |-> "A", artist |-> 0, is_playing |-> x[1], pos |-> x[2], dur |-> x[3], img |-> 1] :
        x \in {<<TRUE, 0, 200 * TU>>, <<TRUE, 200 * TU - TU \div 2, 200 * TU>>,
                <<FALSE, TU, 200 * TU>>, <<TRUE, TU, 0>>}}

InitTick == InitWith(Offsets) /\ budget = TickEvents

NextTick ==
    \/ \E s \in TickSnaps : PollStep("session", s)
    \/ DeliverStep
    \/ \E d \in TickDts : TickStep(d, TickTicks)
    \/ SleepStep(SleepMs, TickTicks)
    \/ PaintStep

SpecTick == InitTick /\ [][NextTick]_vars

\* C8: between snapshots and seeks a tick with is_playing and duration > 0
\* sets local_pos to min(duration, local_pos + dt) and any other tick leaves
\* it alone; so n ticks after the last snapshot or click local_pos is
\* min(duration, its value then + the sum of the dt), e.g. 5.0 after a
\* snapshot {position 0, duration 200, playing} and five ticks 1.0 s apart.
C8_Extrapolation ==
    /\ AfterTick =>
          display_pos = IF is_playing /\ media_dur > 0
                        THEN Min(media_dur, pre.display_pos + last_dt)
                        ELSE pre.display_pos
    /\ since.n > 0 =>
          display_pos = IF is_playing /\ media_dur > 0
                        THEN Min(media_dur, since.pos0 + since.dt_sum)
                        ELSE since.pos0

\* the end-to-end run: position 0, duration 200, playing, five 1.0 s ticks
C8_Witness ==
    /\ last_snap = [title |-> "A", artist |-> 0, is_playing |-> TRUE, pos |-> 0,
                    dur |-> 200 * TU, img |-> 1]
    /\ since.n = 5 /\ since.dt_sum = 5 * TU /\ since.pos0 = 0
    /\ display_pos = 5 * TU

\* the second of two ticks with the same timestamp, nothing but a paint between
RepeatTick == AfterTick /\ since.n >= 2 /\ last_tick_time = pre.last_tick_time

\* C6 as stated: the second tick changes no animator state.
C6_ZeroTickIdempotent ==
    RepeatTick =>
        /\ <<current_w, current_h>> = pre.size
        /\ <<vel_w, vel_h>> = pre.vel
        /\ btn_anim = pre.btn_anim /\ btn_hover_anims = pre.btn_hover_anims
        /\ art_flip_progress = pre.art_flip_progress
        /\ art_fade_progress = pre.art_fade_progress
        /\ temp_mode_progress = pre.temp_mode_progress
        /\ expand_progress = pre.expand_progress
        /\ <<scroll_x, scroll_wait_timer, scroll_direction>>
              = <<pre.scroll_x, pre.scroll_wait_timer, pre.scroll_direction>>
        /\ vis_bars = pre.vis_bars /\ vis_multiplier = pre.vis_multiplier
        /\ bar_hover_anim = pre.bar_hover_anim
        /\ display_pos = pre.display_pos

\* C6 amended: the second tick has dt = 0 and leaves the playback position as
\* it was, but the per-tick animators take one more step: an active flip
\* counter grows by another 0.05 (clamped at 1.0).
C6_ZeroTickKeepsPosition ==
    RepeatTick =>
        /\ last_dt = 0
        /\ display_pos = pre.display_pos
        /\ pre.is_flipping_art =>
              art_flip_progress = Min(ONE, pre.art_flip_progress + ONE \div 20)

\* a repeated tick while playing with the art flip under way
C6_Witness ==
    /\ RepeatTick /\ is_playing /\ media_dur > 0
    /\ pre.is_flipping_art /\ art_flip_progress > pre.art_flip_progress
    /\ display_pos = pre.display_pos /\ display_pos > 0

\* ------------------------------------------------------------ SpecRun
\* The frame timer running for a second and a half; during the first frames
\* a snapshot arrives, the island is clicked, the pointer enters or leaves.
RunEvents == 2
RunTicks == 95
\* the events fall within this many frames
EventWindow == 10
\* the interval of the frame timer, ms
FrameMs == 16
SnapPaused == [title |-> "B", artist |-> 0, is_playing |-> FALSE, pos |-> 0,
               dur |-> 200 * TU, img |-> 0]

InitRun == InitWith(Offsets) /\ budget = RunEvents

NextRun ==
    \/ \E s \in {SnapA, SnapPaused} : ticks < EventWindow /\ PollStep("session", s)
    \/ DeliverStep
    \/ TickStep(FrameMs, RunTicks)
    \/ PaintStep
    \/ ticks < EventWindow /\ PressStep(BodyX, BodyY)
    \/ ticks < EventWindow /\ EnterStep
    \/ ticks < EventWindow /\ LeaveStep

SpecRun == InitRun /\ [][NextRun]_vars

\* ticks that a constant target needs at most to be reached
SettleTicks == 45

AtTarget == <<current_w, current_h>> = <<target_w, target_h>>

\* C7: once the target has stayed the same for SettleTicks ticks with no click
\* in between, current_w = Tw and current_h = Th exactly; and a tick that
\* starts at the target, the target unchanged and no click since the tick
\* before, ends at the target and issues no geometry update.
C7_SpringConverges ==
    AfterTick =>
        /\ stable >= SettleTicks => (AtTarget /\ ~geom_update)
        /\ (stable >= 2 /\ pre.size = <<target_w, target_h>>) =>
              (AtTarget /\ ~geom_update)

\* the island expanded by a click has grown to 520 x 220 and rests there
C7_Witness ==
    /\ AfterTick /\ stable >= SettleTicks
    /\ is_expanded /\ AtTarget /\ ~geom_update
    /\ target_w = EXPAND_W * PX /\ target_h = EXPAND_H * PX
    /\ win_w > MEDIA_HOVER_W

\* the tick's own "some button still animating", from the values it left
BtnsMoving ==
    \E k \in Keys :
        \/ Abs(btn_anim[k].scale - (ONE + MulDiv(btn_hover_anims[k], 2, 10))) > ONE \div 1000
        \/ Abs(btn_anim[k].offset) > ONE \div 10
        \/ Abs(btn_hover_anims[k] - (IF btn_hover_states[k] THEN ONE ELSE 0)) > ONE \div 100

\* the terms the repaint predicate is said to have, after the tick's updates
ListedRepaintTerms ==
    \/ is_playing
    \/ vis_multiplier > ONE \div 100
    \/ is_flipping_art \/ is_fading_art
    \/ BtnsMoving
    \/ (temp_mode_progress > ONE \div 1000 /\ temp_mode_progress < ONE - ONE \div 1000)
    \/ text_change_progress < ONE - ONE \div 100
    \/ temp_mode_active
    \/ Abs(bar_hover_anim - (IF is_bar_hovered THEN ONE ELSE 0)) > ONE \div 100
    \/ tick_scrolling
    \/ Abs(expand_progress - (IF is_expanded THEN ONE ELSE 0)) > ONE \div 1000

\* the two further terms of should_repaint
BoxFading == box_fade_anim < ONE - ONE \div 100
IdleAnimating ==
    Abs(idle_scale_anim - (IF title_text = "Idle" THEN ONE ELSE 0)) > ONE \div 100

\* C10 as stated: a tick signals the renderer exactly when one of the listed
\* terms holds after its updates.
C10_RepaintIffListed == AfterTick => (tick_repaint <=> ListedRepaintTerms)

\* C10 amended: a tick signals the renderer exactly when one of the listed
\* terms holds, or the album-art box fade is unfinished (box_fade_anim < 0.99),
\* or the idle-clock scale is more than 0.01 from its target.
C10_RepaintIffAny ==
    AfterTick => (tick_repaint <=> (ListedRepaintTerms \/ BoxFading \/ IdleAnimating))

\* a tick that signals nothing, every animation being over, some frames after
\* an event
C10_Witness ==
    /\ AfterTick /\ ~tick_repaint
    /\ ~ListedRepaintTerms /\ ~BoxFading /\ ~IdleAnimating
    /\ ticks > EventWindow /\ budget < RunEvents

\* ------------------------------------------------------------ SpecVis
\* The visualizer under varied phase offsets: a track that starts playing or
\* paused, is paused or resumed by a later snapshot, ticked at frame rate and
\* at a slower rate.
VisEvents == 2
VisTicks == 6
\* a slow frame, ms
SlowMs == 700
\* random.random() * 100, in centi-radians
VisPhases == {0, 1234, 9999}
VisSnaps ==
    {[title |-> "B", artist |-> 0, is_playing |-> p, pos |-> 0, dur |-> 200 * TU, img |-> 0] :
        p \in BOOLEAN}

InitVis == \E offs \in [Bars -> VisPhases] : InitWith(offs) /\ budget = VisEvents

NextVis ==
    \/ \E s \in VisSnaps : PollStep("session", s)
    \/ DeliverStep
    \/ \E d \in {FrameMs, SlowMs} : TickStep(d, VisTicks)
    \/ PaintStep

SpecVis == InitVis /\ [][NextVis]_vars

\* C11: every visualizer bar and the global multiplier lie in [0, 1], whatever
\* the ticks and the play/pause changes.
C11_VisualizerInUnitRange ==
    /\ \A i \in Bars : 0 <= vis_bars[i] /\ vis_bars[i] <= ONE
    /\ 0 <= vis_multiplier /\ vis_multiplier <= ONE

\* a bar driven well above its resting level while the multiplier fades in
C11_Witness ==
    /\ AfterTick /\ is_playing
    /\ \E i \in Bars : vis_bars[i] > ONE \div 4
    /\ vis_multiplier > ONE \div 4 /\ vis_multiplier < ONE

\* ------------------------------------------------------------ SpecTemp
\* Track changes to a title, to another title and to "Idle", ticked once a
\* second past the end of temp mode, with a suspension at any moment.
TempEvents == 3
TempTicks == 8

InitTemp == InitWith(Offsets) /\ budget = TempEvents

NextTemp ==
    \/ \E s \in {SnapA, SnapB} : PollStep("session", s)
    \/ PollStep("none", NoSnap)
    \/ DeliverStep
    \/ TickStep(TU, TempTicks)
    \/ SleepStep(SleepMs, TempTicks)
    \/ PaintStep

SpecTemp == InitTemp /\ [][NextTemp]_vars

\* C12: temp mode is switched by a snapshot only when the title changes: on
\* to a title other than "Idle", with the time the snapshot is applied as
\* activation time, off to "Idle"; a tick keeps it active while
\* now - activation <= 5.0 and ends it otherwise, and leaves it inactive once
\* inactive; nothing else changes it.
C12_TempModeWindow ==
    [][ /\ Len(inbox') < Len(inbox) =>
              IF Head(inbox).title # raw_title
              THEN /\ temp_mode_active' = (Head(inbox).title # "Idle")
                   /\ temp_mode_active' => temp_mode_start_time' = now
              ELSE UNCHANGED <<temp_mode_active, temp_mode_start_time>>
        /\ ticks' = ticks + 1 =>
              /\ temp_mode_active' =
                    (temp_mode_active
                       /\ now' - temp_mode_start_time <= TEMP_MODE_DURATION * TU)
              /\ UNCHANGED temp_mode_start_time
        /\ (Len(inbox') >= Len(inbox) /\ ticks' = ticks) =>
              UNCHANGED <<temp_mode_active, temp_mode_start_time>>
      ]_vars

\* the first tick later than 5.0 s after the activation ends temp mode
C12_Witness ==
    /\ AfterTick /\ pre.temp_mode_active /\ ~temp_mode_active
    /\ now - temp_mode_start_time > TEMP_MODE_DURATION * TU
    /\ pre.now - temp_mode_start_time = TEMP_MODE_DURATION * TU
    /\ title_text # "Idle"

\* ------------------------------------------------------------ SpecArt
\* Snapshots of two titles with no artwork, two decodable artworks or bytes
\* that do not decode, arriving while earlier art transitions are under way.
ArtEvents == 3
ArtTicks == 4
ArtSnaps ==
    {[title |-> t, artist |-> 0, is_playing |-> TRUE, pos |-> 0, dur |-> 200 * TU, img |-> g] :
        t \in {"A", "B"}, g \in {0, 1, 2} \cup UndecodableImgs}

InitArt == InitWith(Offsets) /\ budget = ArtEvents

NextArt ==
    \/ \E s \in ArtSnaps : PollStep("session", s)
    \/ DeliverStep
    \/ TickStep(FrameMs, ArtTicks)
    \/ PaintStep

SpecArt == InitArt /\ [][NextArt]_vars

\* both transitions restarted by the last snapshot / left as they were
ArtRestarted ==
    /\ art_flip_progress = 0 /\ art_fade_progress = 0
    /\ is_flipping_art /\ is_fading_art
ArtUntouched ==
    /\ art_flip_progress = pre.art_flip_progress
    /\ art_fade_progress = pre.art_fade_progress
    /\ is_flipping_art = pre.is_flipping_art
    /\ is_fading_art = pre.is_fading_art
\* the snapshot's bytes were accepted as new artwork, or removed the artwork
ArtAccepted ==
    /\ last_snap.img # 0 /\ last_snap.img # pre.last_img_bytes
    /\ last_snap.img \notin UndecodableImgs
ArtWithdrawn == last_snap.img = 0 /\ pre.last_img_bytes # 0

\* C13 as stated: every track change restarts both art transitions.
C13_TrackChangeRestartsArt == (AfterSnapshot /\ TrackChanged) => ArtRestarted

\* C13 amended: a track change restarts both art transitions exactly when the
\* snapshot's artwork is accepted as new (non-empty bytes that differ from the
\* last accepted ones and decode) or withdraws the accepted artwork; any other
\* track change leaves the counters and the active flags as they were.
C13_TrackChangeArtByBytes ==
    (AfterSnapshot /\ TrackChanged) =>
        IF ArtAccepted \/ ArtWithdrawn THEN ArtRestarted ELSE ArtUntouched

\* a new title with the artwork of the previous one, half-way through a flip
C13_Witness ==
    /\ AfterSnapshot /\ TrackChanged
    /\ last_snap.img # 0 /\ last_snap.img = pre.last_img_bytes
    /\ pre.art_flip_progress > 0 /\ pre.is_flipping_art
    /\ ArtUntouched /\ ~ArtRestarted

\* C14: a snapshot whose artwork differs from the last accepted artwork
\* (different bytes, or absent after present) restarts both art transitions,
\* even in mid-transition; a snapshot with the same artwork leaves the
\* counters and the active flags unchanged.
C14_ArtIdentityRestartsArt ==
    AfterSnapshot =>
        IF last_snap.img # pre.last_img_bytes THEN ArtRestarted ELSE ArtUntouched

\* C15: artwork bytes that do not decode are handled as "no artwork": the
\* current artwork becomes absent, and the transitions start as they do when
\* accepted artwork is withdrawn.
C15_UndecodableAsNoArt ==
    (AfterSnapshot /\ last_snap.img \in UndecodableImgs) =>
        /\ current_album_art = 0 /\ last_img_bytes = 0
        /\ pre.last_img_bytes # 0 => ArtRestarted

\* ------------------------------------------------------------ SpecWorker
\* The polling loop on its own thread against the widget's event loop: polls
\* that find a session, find none or fail, at any moment, also while a tick
\* is in progress.
WorkerEvents == 3
WorkerTicks == 3
\* queued signals the event loop may hold
WorkerInbox == 2

InitWorker == InitWith(Offsets) /\ budget = WorkerEvents

NextWorker ==
    \/ \E s \in {SnapA, SnapB} : PollStepCap("session", s, WorkerInbox)
    \/ \E o \in {"none", "error", "late"} : PollStepCap(o, NoSnap, WorkerInbox)
    \/ DeliverStep
    \/ TickBeginStep(WorkerTicks)
    \/ TickEndStep(FrameMs)
    \/ PaintStep

SpecWorker == InitWorker /\ [][NextWorker]_vars

\* C16: after a poll that finds no session or fails with an error, the last
\* signal queued for the core is the "Idle" snapshot.
C16_FailedPollEmitsIdle ==
    last_op \in {"poll_none", "poll_error", "poll_late"} =>
        (inbox # <<>> /\ inbox[Len(inbox)] = IdleSnap)

\* the widget's state: everything on_metadata_sync and game_loop write
CoreVars == <<physVars, btnVars, visVars, artVars, tempVars, scrollVars, metricVars,
              hoverVars, mediaVars, animVars, is_expanded, is_playing, display_pos,
              last_tick_time>>

\* the step applies a snapshot to the widget's state
SnapshotApplied ==
    last_op' = "meta" /\ (inbox' # inbox \/ budget' # budget \/ last_op # "meta")

\* C18: a snapshot is applied only by the widget's thread while it is not
\* inside a tick, and it is the oldest queued one, removed from the queue by
\* its application; an emission by the worker only appends to the queue and
\* leaves the widget's state alone; while a tick is in progress the widget's
\* state changes only by the end of that tick, and a tick ends only if it
\* was in progress.
C18_SerializedApplication ==
    [][ /\ SnapshotApplied =>
              /\ gui = "idle" /\ gui' = "idle"
              /\ inbox # <<>>
              /\ last_snap' = Head(inbox)
              /\ inbox' = Tail(inbox)
        /\ ~SnapshotApplied =>
              \/ inbox' = inbox
              \/ /\ Len(inbox') = Len(inbox) + 1
                 /\ SubSeq(inbox', 1, Len(inbox)) = inbox
                 /\ last_op' \in {"poll_session", "poll_none"}
                 /\ UNCHANGED CoreVars
        /\ gui = "tick" =>
              \/ UNCHANGED <<CoreVars, gui>>
              \/ gui' = "idle" /\ last_op' = "tick" /\ ticks' = ticks + 1
        /\ ticks' # ticks => gui = "tick" /\ gui' = "idle"
        /\ (gui' = "tick" /\ gui # "tick") => (gui = "idle" /\ UNCHANGED CoreVars)
      ]_vars

\* C18 witness: after a snapshot was applied a tick is in progress and the
\* worker has emitted two more snapshots, both still queued
C18_Witness ==
    /\ gui = "tick"
    /\ last_snap = SnapA
    /\ Len(inbox) = 2
    /\ inbox[1] = SnapB /\ inbox[2] = IdleSnap
    /\ last_op = "poll_none"

\* ------------------------------------------------------------ SpecPointer
\* The pointer enters the island, clicks its body, moves over the play
\* button and leaves, while a track plays and the timer ticks.
PointerEvents == 5
PointerTicks == 3
\* a point over the play button of the island while it is still narrow:
\* center_x = 220 + (w - 240) / 2 and btn_y = h - BTNYPOS
PlayX == 190
PlayY == 10

\* the pointer position of a mouse event lies inside the window
InWindow(px, py) == px < win_w /\ py < win_h

InitPointer == InitWith(Offsets) /\ budget = PointerEvents

NextPointer ==
    \/ PollStep("session", SnapA)
    \/ DeliverStep
    \/ TickStep(FrameMs, PointerTicks)
    \/ PaintStep
    \/ EnterStep
    \/ LeaveStep
    \/ \E p \in {<<BodyX, BodyY>>, <<PlayX, PlayY>>} :
          InWindow(p[1], p[2]) /\ MoveStep(p[1], p[2])
    \/ InWindow(BodyX, BodyY) /\ is_hovered /\ PressStep(BodyX, BodyY)

SpecPointer == InitPointer /\ [][NextPointer]_vars

\* C17: after a pointer-leave event is_hovered, is_expanded, the hover flags
\* of prev, play and next, and the seek-bar hover flag are all false.
C17_LeaveResetsInteraction ==
    last_op = "leave" =>
        /\ ~is_hovered
        /\ ~is_expanded
        /\ \A k \in Keys : ~btn_hover_states[k]
        /\ ~is_bar_hovered

\* ------------------------------------------------------------ SpecCmd
\* Clicks on the transport buttons of the expanded island while the worker
\* polls, loses the session and runs the scheduled commands.
CmdEvents == 4
CmdTicks == 2
CmdSnaps ==
    {[title |-> "A", artist |-> 0, is_playing |-> p, pos |-> x, dur |-> 200 * TU, img |-> 0] :
        p \in BOOLEAN, x \in {0, 10 * TU}}
\* a point over the prev button of the narrow island
PrevX == 140
PrevY == 10

InitCmd == InitWith(Offsets) /\ budget = CmdEvents

NextCmd ==
    \/ \E s \in CmdSnaps : PollStep("session", s)
    \/ PollStep("none", NoSnap)
    \/ DeliverStep
    \/ TickStep(FrameMs, CmdTicks)
    \/ PaintStep
    \/ \E p \in {<<BodyX, BodyY>>, <<PlayX, PlayY>>, <<PrevX, PrevY>>} :
          InWindow(p[1], p[2]) /\ PressStep(p[1], p[2])
    \/ \E ok \in BOOLEAN : RunStep(ok)

SpecCmd == InitCmd /\ [][NextCmd]_vars

\* the play button was clicked and no tick has run since
PlayClicked(b) == b["play"].scale = (8 * ONE) \div 10

\* the applied snapshot was a zero-position glitch for the state before it
WasGlitch ==
    /\ last_snap.title = pre.raw_title
    /\ last_snap.pos = 0
    /\ pre.display_pos > 5 * TU

\* C19 as stated: a click on play flips is_playing at once, with the toggle
\* command still waiting on the worker, and after the next applied snapshot
\* is_playing equals the snapshot's is_playing.
C19_ClickReconciled ==
    /\ last_op = "play" =>
          /\ is_playing = ~pre.is_playing
          /\ current_session => (pending # <<>> /\ pending[Len(pending)] = <<"toggle", 0>>)
    /\ (AfterSnapshot /\ PlayClicked(pre.btn_anim)) =>
          is_playing = last_snap.is_playing

\* C19 amended: a click on play flips is_playing at once, with the toggle
\* command still waiting on the worker; the next applied snapshot sets
\* is_playing to the snapshot's value unless it is a zero-position glitch
\* (same title, position 0, displayed position above 5 s), which leaves the
\* clicked value in place.
C19_ClickReconciledUnlessGlitch ==
    /\ last_op = "play" =>
          /\ is_playing = ~pre.is_playing
          /\ current_session => (pending # <<>> /\ pending[Len(pending)] = <<"toggle", 0>>)
    /\ (AfterSnapshot /\ PlayClicked(pre.btn_anim)) =>
          is_playing = IF WasGlitch THEN pre.is_playing ELSE last_snap.is_playing

\* C19 witness: a snapshot applied after a click on play overrode the
\* clicked value
C19_Witness ==
    /\ AfterSnapshot
    /\ PlayClicked(pre.btn_anim)
    /\ ~WasGlitch
    /\ pending # <<>>
    /\ pre.is_playing # last_snap.is_playing
    /\ is_playing = last_snap.is_playing

\* no click on play: the play button's scale never passes through the
\* clicked value by animation alone
PlayScaleOnlyByClick == ~PlayClicked(btn_anim)

\* last_op after a click that calls a command of the worker
CommandOps == {"play", "prev", "next", "seek"}

\* C20: a command is scheduled only by a click handler, only when a session
\* is known, and the handler returns with the command still waiting (nothing
\* reaches the collaborator in that step); a command issued without a session
\* schedules nothing; a scheduled command that runs when the session is gone
\* reaches no collaborator, and running a command never changes the widget's
\* state or the signal queue.
C20_CommandsFireAndForget ==
    [][ /\ Len(pending') > Len(pending) =>
              /\ current_session
              /\ last_op' \in CommandOps
              /\ pending' = Append(pending, pending'[Len(pending')])
              /\ delivered' = delivered
              /\ gui' = gui
        /\ (last_op' \in CommandOps /\ budget' # budget /\ ~current_session) =>
              (pending' = pending /\ delivered' = delivered)
        /\ Len(pending') < Len(pending) =>
              /\ last_op' = "run"
              /\ pending' = Tail(pending)
              /\ UNCHANGED <<CoreVars, inbox, current_session>>
              /\ ~current_session => delivered' = delivered
              /\ delivered' \in {delivered, Append(delivered, Head(pending))}
        /\ delivered' # delivered => Len(pending') < Len(pending)
      ]_vars

\* C20 witness: a command issued while a session was known has run after the
\* session was lost, and nothing reached the collaborator
C20_Witness ==
    /\ last_op = "run"
    /\ ~current_session
    /\ pending = <<>>
    /\ delivered = <<>>
    /\ title_text = "A"

\* ------------------------------------------------------------ SpecSeek
\* Clicks along the seek bar of the island while it grows after the
\* expanding click, with a session that may be lost and seek commands that
\* may fail.
SeekEvents == 4
SeekTicks == 3
\* the left edge of the seek bar (bar_x), a point inside it and a point at
\* its right end two frames after the expanding click
SeekXs == {220, 240, 264}
SeekY == 10
SeekSnaps ==
    {[title |-> "B", artist |-> 0, is_playing |-> p, pos |-> 10 * TU, dur |-> d, img |-> 0] :
        p \in BOOLEAN, d \in {0, 200 * TU}}

InitSeek == InitWith(Offsets) /\ budget = SeekEvents

NextSeek ==
    \/ \E s \in SeekSnaps : PollStep("session", s)
    \/ PollStep("none", NoSnap)
    \/ DeliverStep
    \/ TickStep(FrameMs, SeekTicks)
    \/ PaintStep
    \/ InWindow(BodyX, BodyY) /\ PressStep(BodyX, BodyY)
    \/ \E px \in SeekXs : InWindow(px, SeekY) /\ PressStep(px, SeekY)
    \/ \E ok \in BOOLEAN : RunStep(ok)

SpecSeek == InitSeek /\ [][NextSeek]_vars

\* the step is a click on the seek bar
SeekClick == last_op' = "seek" /\ budget' # budget

\* C21: a click on the seek bar at px sets display_pos to the fraction
\* (px - 220) / (width - 240) of media_dur (to the nearest ms), so that
\* 0 <= display_pos <= media_dur, in the same step that schedules the seek
\* command (still waiting, and scheduled only with a session); is_playing and
\* is_expanded are unchanged; running the command, whether it succeeds or
\* fails, leaves display_pos alone.
C21_SeekSetsPosition ==
    [][ /\ SeekClick =>
              /\ display_pos' >= 0 /\ display_pos' <= media_dur
              /\ \E px \in SeekXs :
                    LET bar_w == win_w - 240
                        rel_x == px - 220
                    IN  /\ bar_w > 0 /\ rel_x >= 0 /\ rel_x <= bar_w
                        /\ 2 * Abs(display_pos' * bar_w - rel_x * media_dur) <= bar_w
              /\ is_playing' = is_playing
              /\ is_expanded' = is_expanded
              /\ delivered' = delivered
              /\ pending' = IF current_session
                            THEN Append(pending, <<"seek", display_pos'>>)
                            ELSE pending
        /\ (last_op' = "run" /\ pending' # pending) => display_pos' = display_pos
      ]_vars

\* C21 witness: a click inside the seek bar of a paused track moved the
\* position, and the seek command then failed
C21_Witness ==
    /\ last_op = "run"
    /\ delivered = <<>> /\ pending = <<>>
    /\ ~is_playing
    /\ media_dur > 0
    /\ display_pos > 0 /\ display_pos < media_dur /\ display_pos # 10 * TU

\* ------------------------------------------------------------ the renderer's writes
\* the widget's state without the text-measurement feedback
AnimatorVars == <<physVars, btnVars, visVars, artVars, tempVars, scrollVars, hoverVars,
                  mediaVars, animVars, is_expanded, is_playing, display_pos,
                  last_tick_time>>

\* the step is a paint
PaintDone == last_op' = "paint" /\ update_pending /\ ~update_pending'

\* C22: a paint leaves sizes, velocities, progress counters, scroll state,
\* timers, flags and the position unchanged; it writes at most the measured
\* text width, the available width and text_fits, and text_fits is the
\* comparison of the two widths; no other step writes these three.
C22_PaintWritesOnlyMetrics ==
    [][ /\ PaintDone =>
              /\ UNCHANGED <<AnimatorVars, workerVars, delivered, now>>
              /\ text_fits' = (title_text_width' <= available_text_w')
              /\ \/ UNCHANGED metricVars
                 \/ \E e \in BOOLEAN :
                       /\ title_text_width' = TitleWidth(title_text, e) * SPX
                       /\ available_text_w' =
                             (IF e THEN win_w - 280 ELSE win_w - 90) * SPX
        /\ ~PaintDone => UNCHANGED metricVars
      ]_vars

\* C22 witness: a paint measured a title that does not fit while the text
\* was scrolled, and the scroll offset is still there
C22_Witness ==
    /\ last_op = "paint"
    /\ ~text_fits
    /\ title_text_width > available_text_w
    /\ scroll_x > 0

\* ------------------------------------------------------------ order within a tick
\* the step is a tick
TickDone == ticks' = ticks + 1

\* C23: in every tick the spring target is computed from the temp-mode
\* progress the previous tick left, the scroll step uses the temp-mode flag
\* as updated in this tick, and the position is advanced by this tick's dt
\* from the position the tick started with.
C23_TickOrder ==
    [][ TickDone =>
          LET t == SpringTarget(is_expanded, is_hovered, title_text, temp_mode_progress)
              sc == AnimateScroll(scroll_x, scroll_wait_timer, scroll_direction,
                                  (is_expanded \/ temp_mode_active') /\ ~text_fits,
                                  title_text_width, available_text_w, last_dt')
          IN  /\ target_w' = t.w /\ target_h' = t.h
              /\ temp_mode_active' =
                    (temp_mode_active
                       /\ now' - temp_mode_start_time <= TEMP_MODE_DURATION * TU)
              /\ scroll_x' = sc.scroll_x
              /\ scroll_wait_timer' = sc.timer
              /\ scroll_direction' = sc.dir
              /\ display_pos' = AdvancePos(display_pos, is_playing, media_dur, last_dt')
      ]_vars

\* C23 witness: the tick that ended temp mode moved the progress, aimed the
\* spring with the progress it started with, and reset the scroll that was
\* about to move forward
C23_Witness ==
    /\ AfterTick
    /\ pre.temp_mode_active /\ ~temp_mode_active
    /\ ~is_expanded /\ ~text_fits /\ title_text # "Idle"
    /\ pre.scroll_direction = 1
    /\ scroll_x = 0 /\ scroll_wait_timer = 0 /\ scroll_direction = 0
    /\ temp_mode_progress # pre.temp_mode_progress
    /\ target_w = SpringTarget(FALSE, is_hovered, title_text, pre.temp_mode_progress).w
    /\ target_w # SpringTarget(FALSE, is_hovered, title_text, temp_mode_progress).w

\* ------------------------------------------------------------ the spring target
\* C24: after every tick the target is the expanded size when expanded,
\* whatever the hover flag; else the hover size when hovered (330 wide with
\* media, 230 without); else the idle size, 200 wide without media and
\* 300 + 50 * temp_mode_progress wide with media, the progress being the one
\* the tick started with.
C24_TargetPrecedence ==
    AfterTick =>
        IF is_expanded
        THEN target_w = 520 * PX /\ target_h = 220 * PX
        ELSE IF is_hovered
        THEN /\ target_h = 42 * PX
             /\ target_w = (IF title_text = "Idle" THEN 230 ELSE 330) * PX
        ELSE /\ target_h = 35 * PX
             /\ IF title_text = "Idle" THEN target_w = 200 * PX
                ELSE Abs(2 * (target_w - 300 * PX) - pre.temp_mode_progress) <= 1

\* C24 witness: a tick of the expanded island with the pointer over it
C24_Witness ==
    /\ AfterTick
    /\ is_expanded /\ is_hovered
    /\ target_w = EXPAND_W * PX /\ target_h = EXPAND_H * PX
    /\ pre.size # <<current_w, current_h>>

\* ------------------------------------------------------------ SpecKick
\* Every kind of event against the spring: snapshots, enter, leave, moves,
\* clicks on the body, on the buttons and on the seek bar, and ticks.
KickEvents == 4
KickTicks == 3

InitKick == InitWith(Offsets) /\ budget = KickEvents

NextKick ==
    \/ PollStep("session", SnapPaused)
    \/ DeliverStep
    \/ TickStep(FrameMs, KickTicks)
    \/ PaintStep
    \/ EnterStep
    \/ LeaveStep
    \/ InWindow(PlayX, PlayY) /\ MoveStep(PlayX, PlayY)
    \/ \E px \in {BodyX, 220, 240} : InWindow(px, SeekY) /\ PressStep(px, SeekY)

SpecKick == InitKick /\ [][NextKick]_vars

\* the step is a left click
ClickDone == budget' # budget /\ last_op' \in {"press"} \cup CommandOps

\* C25: a click changes the velocity only if it toggles is_expanded, and
\* then by +10 on both axes when it expands and by -5 when it collapses; a
\* tick changes it by the spring step alone (force towards the target, then
\* damping); no other step changes it, the collapse by pointer-leave
\* included.
C25_ImpulseOnToggleOnly ==
    [][ /\ ClickDone =>
              IF is_expanded' # is_expanded
              THEN /\ last_op' = "press"
                   /\ vel_w' = vel_w + (IF is_expanded' THEN 10 * PX ELSE -5 * PX)
                   /\ vel_h' = vel_h + (IF is_expanded' THEN 10 * PX ELSE -5 * PX)
              ELSE last_op' # "press" /\ UNCHANGED <<vel_w, vel_h>>
        /\ TickDone =>
              /\ vel_w' = MulDiv(vel_w + MulDiv(target_w' - current_w, 15, 100), 62, 100)
              /\ vel_h' = MulDiv(vel_h + MulDiv(target_h' - current_h, 15, 100), 62, 100)
        /\ (~ClickDone /\ ~TickDone) => UNCHANGED <<vel_w, vel_h>>
      ]_vars

\* C25 witness: an expanding and a collapsing click left the velocity at
\* 10 - 5 on both axes, and the next tick applied the spring step to it
C25_Witness ==
    /\ AfterTick
    /\ ~is_expanded
    /\ pre.vel = <<5 * PX, 5 * PX>>
    /\ vel_w = MulDiv(5 * PX + MulDiv(target_w - pre.size[1], 15, 100), 62, 100)
    /\ vel_w # 0

\* ------------------------------------------------------------ SpecCycle
\* A long title in the expanded island, ticked once a second until the
\* window has settled and the title has scrolled there and back.
CycleEvents == 2
CycleTicks == 64
\* the snapshot and the click fall within this many ticks
CycleWindow == 4

InitCycle == InitWith(Offsets) /\ budget = CycleEvents

NextCycle ==
    \/ \E s \in {SnapA, SnapB} : ticks < CycleWindow /\ PollStep("session", s)
    \/ DeliverStep
    \/ TickStep(TU, CycleTicks)
    \/ PaintStep
    \/ ticks < CycleWindow /\ PressStep(BodyX, BodyY)

SpecCycle == InitCycle /\ [][NextCycle]_vars

\* WAIT, FORWARD or BACKWARD, from the direction d
Phase(d) == IF d = 1 THEN "FORWARD" ELSE IF d = -1 THEN "BACKWARD" ELSE "WAIT"

\* scrolling is eligible with max_scroll > 0, the offset is within bounds,
\* and a running pause is at one of the two ends
CycleState ==
    /\ ScrollEligible /\ MaxScroll > 0
    /\ scroll_x >= 0 /\ scroll_x <= MaxScroll
    /\ (scroll_direction = 0 /\ scroll_wait_timer > 0) => scroll_x \in {0, MaxScroll}
    /\ scroll_direction # 0 => scroll_wait_timer = 0

\* C26: from a state of the cycle a tick (dt = last_dt') does one of: keep
\* waiting with the timer reduced by dt; end the pause at 0 into FORWARD or
\* the pause at max_scroll into BACKWARD; move forward by 30*dt below
\* max_scroll; reach max_scroll, clamp and pause 2.0; move backward by 30*dt
\* above 0; reach 0, clamp to exactly 0 and pause 5.0.
C26_ScrollCycle ==
    [][ (TickDone /\ CycleState /\ (is_expanded \/ temp_mode_active')) =>
          LET dt == last_dt'
              phase == Phase(scroll_direction)
              phase2 == Phase(scroll_direction')
          IN  IF phase = "WAIT" /\ scroll_wait_timer > 0
              THEN /\ scroll_x' = scroll_x
                   /\ IF scroll_wait_timer > dt
                      THEN phase2 = "WAIT" /\ scroll_wait_timer' = scroll_wait_timer - dt
                      ELSE /\ scroll_wait_timer' = 0
                           /\ phase2 = IF scroll_x = 0 THEN "FORWARD" ELSE "BACKWARD"
              ELSE IF phase = "WAIT"
              THEN scroll_x' = scroll_x /\ phase2 = "WAIT" /\ scroll_wait_timer' = 5 * TU
              ELSE IF phase = "FORWARD"
              THEN IF scroll_x + 30 * dt >= MaxScroll
                   THEN /\ scroll_x' = MaxScroll /\ phase2 = "WAIT"
                        /\ scroll_wait_timer' = 2 * TU
                   ELSE /\ scroll_x' = scroll_x + 30 * dt /\ phase2 = "FORWARD"
                        /\ scroll_wait_timer' = 0
              ELSE IF scroll_x - 30 * dt <= 0
                   THEN /\ scroll_x' = 0 /\ phase2 = "WAIT"
                        /\ scroll_wait_timer' = 5 * TU
                   ELSE /\ scroll_x' = scroll_x - 30 * dt /\ phase2 = "BACKWARD"
                        /\ scroll_wait_timer' = 0
      ]_vars

\* C26 witness: in the settled window the title came back to exactly 0 from
\* BACKWARD into the 5.0 pause, a whole cycle after the window stopped moving
C26_Witness ==
    /\ AfterTick
    /\ AtTarget /\ is_expanded
    /\ since.n >= SettleTicks + 11
    /\ pre.scroll_direction = -1 /\ pre.scroll_x > 0
    /\ scroll_x = 0 /\ scroll_direction = 0 /\ scroll_wait_timer = 5 * TU
    /\ MaxScroll > 0

\* ------------------------------------------------------------ scroll eligibility
\* should_scroll as the tick being taken evaluates it
EligibleInTick == (is_expanded \/ temp_mode_active') /\ ~text_fits

\* C27: a tick on which (is_expanded or temp mode active) and not text_fits
\* is false ends with scroll_x = 0, timer = 0 and state WAIT; an eligible
\* tick that starts from that reset state ends in WAIT at scroll_x = 0 with
\* timer 5.0; text that does not fit has max_scroll > 0; outside ticks only
\* a snapshot with a new title writes the scroll state (0, 5.0, WAIT).
C27_ScrollEligibility ==
    [][ /\ (TickDone /\ ~EligibleInTick) =>
              (scroll_x' = 0 /\ scroll_wait_timer' = 0 /\ scroll_direction' = 0)
        /\ (TickDone /\ EligibleInTick) =>
              /\ title_text_width > available_text_w
              /\ (scroll_x = 0 /\ scroll_wait_timer = 0 /\ scroll_direction = 0) =>
                    /\ scroll_x' = 0 /\ scroll_direction' = 0
                    /\ scroll_wait_timer' = 5 * TU
                    /\ tick_scrolling'
        /\ ~TickDone =>
              \/ UNCHANGED scrollVars
              \/ /\ SnapshotApplied /\ Head(inbox).title # raw_title
                 /\ scroll_x' = 0 /\ scroll_direction' = 0
                 /\ scroll_wait_timer' = 5 * TU
      ]_vars

\* C27 witness: temp mode of track A ran out with the island collapsed, the
\* scroll was reset, and the first tick of the expanded island started the
\* 5.0 pause at 0
C27_Witness ==
    /\ AfterTick
    /\ title_text = "A" /\ is_expanded /\ ~temp_mode_active /\ ~text_fits
    /\ ticks >= 7
    /\ pre.scroll_x = 0 /\ pre.scroll_wait_timer = 0 /\ pre.scroll_direction = 0
    /\ scroll_x = 0 /\ scroll_direction = 0 /\ scroll_wait_timer = 5 * TU

\* ------------------------------------------------------------ the art counters
\* both counters stand k ticks after their last reset
ArtAfterTicks(k) ==
    /\ art_flip_progress = Min(ONE, k * (ONE \div 20))
    /\ art_fade_progress = Min(ONE, k * (ONE \div 25))
    /\ is_flipping_art = (k < 20)
    /\ is_fading_art = (k < 25)

\* no artwork has arrived since construction
ArtNeverReset ==
    /\ art_flip_progress = 0 /\ art_fade_progress = 0
    /\ ~is_flipping_art /\ ~is_fading_art

\* C28: on a tick an active flip counter grows by 0.05 and an active fade
\* counter by 0.04, a counter reaching 1.0 becomes exactly 1.0 and inactive,
\* and an inactive counter keeps its value; outside ticks the counters change
\* only by a reset of both to 0 and active; hence, k ticks after the last
\* reset, flip = min(1, 0.05 k), fade = min(1, 0.04 k), the flip is active
\* while k < 20 and the fade while k < 25.
C28_ArtCounters ==
    [][ /\ TickDone =>
              /\ IF is_flipping_art
                 THEN /\ art_flip_progress' = Min(ONE, art_flip_progress + ONE \div 20)
                      /\ art_flip_progress' > art_flip_progress
                      /\ is_flipping_art' = (art_flip_progress' < ONE)
                 ELSE UNCHANGED <<art_flip_progress, is_flipping_art>>
              /\ IF is_fading_art
                 THEN /\ art_fade_progress' = Min(ONE, art_fade_progress + ONE \div 25)
                      /\ art_fade_progress' > art_fade_progress
                      /\ is_fading_art' = (art_fade_progress' < ONE)
                 ELSE UNCHANGED <<art_fade_progress, is_fading_art>>
        /\ ~TickDone =>
              \/ UNCHANGED <<art_flip_progress, art_fade_progress, is_flipping_art,
                             is_fading_art>>
              \/ /\ SnapshotApplied
                 /\ art_flip_progress' = 0 /\ art_fade_progress' = 0
                 /\ is_flipping_art' /\ is_fading_art'
        /\ (ArtNeverReset \/ \E k \in 0 .. 25 : ArtAfterTicks(k))'
      ]_vars

\* C28 witness: the tick 20 ticks after a reset ended the flip with the fade
\* still running at 0.8
C28_Witness ==
    /\ AfterTick
    /\ pre.is_flipping_art /\ ~is_flipping_art
    /\ art_flip_progress = ONE
    /\ is_fading_art /\ art_fade_progress = 20 * (ONE \div 25)

\* ------------------------------------------------------------ SpecButtons
\* Presses on the three transport buttons and the pointer over the play
\* button, then ticks until the buttons have come to rest.
ButtonEvents == 5
ButtonTicks == 40
\* the events fall within this many frames
ButtonWindow == 4
\* a point over the next button three frames after the expanding click
NextX == 320
NextY == 60
ButtonPoints == {<<BodyX, BodyY>>, <<PlayX, PlayY>>, <<PrevX, PrevY>>, <<NextX, NextY>>}

InitButtons == InitWith(Offsets) /\ budget = ButtonEvents

NextButtons ==
    \/ ticks < ButtonWindow /\ PollStep("session", SnapPaused)
    \/ DeliverStep
    \/ TickStep(FrameMs, ButtonTicks)
    \/ PaintStep
    \/ ticks < ButtonWindow /\ EnterStep
    \/ ticks < ButtonWindow /\ InWindow(PlayX, PlayY) /\ MoveStep(PlayX, PlayY)
    \/ \E p \in ButtonPoints :
          ticks < ButtonWindow /\ InWindow(p[1], p[2]) /\ is_hovered /\ PressStep(p[1], p[2])

SpecButtons == InitButtons /\ [][NextButtons]_vars

\* ticks without an event after which every button is at rest
RestTicks == 36

\* the step is a press on the button k
ButtonPressed(k) == budget' # budget /\ last_op' = k

\* C29: a press on prev or next sets that button's scale to 0.8 and its
\* offset to -8 or +8, a press on play sets its scale to 0.8 and keeps its
\* offset, and the other buttons are untouched; a tick moves each hover_anim
\* a fifth of the way to its hover target, each scale a fifth of the way to
\* 1.0 + 0.2 * hover_anim and each offset a fifth of the way to 0; once
\* RestTicks ticks have passed without an event no button is still
\* animating (scale within 0.001, offset within 0.1, hover_anim within 0.01
\* of target), on that tick and on every later one.
C29_ButtonPressAndRest ==
    [][ /\ \A k \in Keys : ButtonPressed(k) =>
              /\ btn_anim'[k].scale = (8 * ONE) \div 10
              /\ btn_anim'[k].offset = IF k = "prev" THEN -8 * ONE
                                       ELSE IF k = "next" THEN 8 * ONE
                                       ELSE btn_anim[k].offset
              /\ \A j \in Keys \ {k} : btn_anim'[j] = btn_anim[j]
              /\ UNCHANGED <<btn_hover_states, btn_hover_anims>>
        /\ TickDone => \A k \in Keys :
              LET target_hover == IF btn_hover_states[k] THEN ONE ELSE 0
              IN  /\ btn_hover_anims'[k] - btn_hover_anims[k]
                        = MulDiv(target_hover - btn_hover_anims[k], 2, 10)
                  /\ btn_anim'[k].scale - btn_anim[k].scale
                        = MulDiv(ONE + MulDiv(btn_hover_anims'[k], 2, 10)
                                   - btn_anim[k].scale, 2, 10)
                  /\ btn_anim'[k].offset - btn_anim[k].offset
                        = MulDiv(-btn_anim[k].offset, 2, 10)
        /\ (since.n >= RestTicks => ~BtnsMoving)'
      ]_vars

\* C29 witness: the next button was pressed, and RestTicks ticks later its
\* scale and offset are back at rest
C29_Witness ==
    /\ AfterTick
    /\ since.n >= RestTicks
    /\ pending # <<>> /\ pending[Len(pending)] = <<"next", 0>>
    /\ ~BtnsMoving
    /\ Abs(btn_anim["next"].offset) <= ONE \div 10
    /\ Abs(btn_anim["next"].scale - ONE) <= ONE \div 1000

\* ------------------------------------------------------------ the two content layers
\* both layers are drawn with an opacity above 0 at the current progress
BothLayersVisible ==
    LET c == CollapsedLayer(expand_progress)
        e == ExpandedLayer(expand_progress)
    IN  c.drawn /\ c.opacity > 0 /\ e.drawn /\ e.opacity > 0

\* C30 as stated: at every expand progress between 0.2 and 0.8 both layers
\* are drawn with an opacity strictly above 0.
C30_CrossFadeWholeInterval ==
    (expand_progress > (2 * ONE) \div 10 /\ expand_progress < (8 * ONE) \div 10) =>
        BothLayersVisible

\* C30 amended: both layers are drawn with an opacity strictly above 0
\* exactly while 0.2 < progress < 1/3; from 1/3 up to 0.8 the collapsed layer
\* is still drawn but at opacity 0, and only the expanded layer is visible.
C30_CrossFadeUpToThird ==
    /\ BothLayersVisible <=>
          (expand_progress > (2 * ONE) \div 10 /\ 3 * expand_progress < ONE)
    /\ (3 * expand_progress >= ONE /\ expand_progress < (8 * ONE) \div 10) =>
          /\ CollapsedLayer(expand_progress).drawn
          /\ CollapsedLayer(expand_progress).opacity = 0
          /\ ExpandedLayer(expand_progress).opacity > 0

\* C30 witness: a paint at an expand progress between 0.2 and 1/3
C30_Witness ==
    /\ last_op = "paint"
    /\ expand_progress > (2 * ONE) \div 10
    /\ 3 * expand_progress < ONE
    /\ BothLayersVisible

\* ------------------------------------------------------------ SpecCycleLive
\* SpecCycle with the scheduling of the event loop: the 16 ms timer keeps
\* firing, and a requested paint and a queued signal are always handled.
SpecCycleLive ==
    /\ InitCycle /\ [][NextCycle]_vars
    /\ WF_vars(TickStep(TU, CycleTicks))
    /\ WF_vars(PaintStep)
    /\ WF_vars(DeliverStep)

\* ticks of 1 s that outlast every pause of the cycle (5.0 s, and one tick to
\* arm it)
WaitHorizon == 8

\* the scroll is in WAIT while scrolling is eligible with max_scroll > 0
WaitingEligible == ScrollEligible /\ MaxScroll > 0 /\ scroll_direction = 0

\* WAIT with scroll_x strictly between 0 and max_scroll: the expiring timer
\* finds neither end and sets no direction
StalledScroll == scroll_direction = 0 /\ 0 < scroll_x /\ scroll_x < MaxScroll

\* an eligible tick from that state only counts the timer down or re-arms it:
\* scroll_x and WAIT stay, however many ticks follow (so the run that
\* refutes C31 goes on like this beyond any number of ticks)
StallPersists ==
    [][ (TickDone /\ WaitingEligible /\ StalledScroll /\ EligibleInTick) =>
          (scroll_x' = scroll_x /\ scroll_direction' = 0)
      ]_vars

\* C31: while scrolling stays eligible with max_scroll > 0 and ticks keep
\* arriving, every WAIT is followed by FORWARD or BACKWARD (or scrolling
\* stops being eligible), whatever widths the renderer reports meanwhile.
C31_WaitEnds ==
    (WaitingEligible /\ ticks + WaitHorizon <= CycleTicks)
        ~> (scroll_direction # 0 \/ ~(ScrollEligible /\ MaxScroll > 0))

\* ------------------------------------------------------------ SpecRepeat
\* The 0.5 s poll repeats snapshots: the same title again with another
\* artist, artwork, duration, position or play state, queued singly or two at
\* a time, against a ticking island that a click may have expanded.
RepeatEvents == 3
RepeatTicks == 8
RepeatInbox == 2
RepeatSnaps ==
    {[title |-> t, artist |-> 0, is_playing |-> TRUE, pos |-> 10 * TU,
      dur |-> 200 * TU, img |-> 1] : t \in {"A", "B"}}
    \cup
    {[title |-> t, artist |-> 50, is_playing |-> FALSE, pos |-> 12 * TU,
      dur |-> 100 * TU, img |-> 2] : t \in {"A", "B"}}
    \cup
    {[title |-> "A", artist |-> 0, is_playing |-> TRUE, pos |-> 0,
      dur |-> 200 * TU, img |-> 0]}

InitRepeat == InitWith(Offsets) /\ budget = RepeatEvents

NextRepeat ==
    \/ \E s \in RepeatSnaps : PollStepCap("session", s, RepeatInbox)
    \/ DeliverStep
    \/ TickStep(TU, RepeatTicks)
    \/ PaintStep
    \/ PressStep(BodyX, BodyY)

SpecRepeat == InitRepeat /\ [][NextRepeat]_vars

\* C32: a snapshot whose title equals the previous raw title leaves scroll_x,
\* the wait timer, the scroll direction, the temp-mode flag and the temp-mode
\* activation time (and the text-change progress) as they were, whatever its
\* artist, artwork, duration, position and play state.
C32_SameTitleKeepsMarquee ==
    [][ (SnapshotApplied /\ Head(inbox).title = raw_title) =>
          /\ UNCHANGED scrollVars
          /\ UNCHANGED <<temp_mode_active, temp_mode_start_time, text_change_progress>>
      ]_vars

\* C32 witness: in temp mode, with the marquee's wait timer part-way down, a
\* snapshot of the same title with another artist, artwork, duration,
\* position and play state was applied
C32_Witness ==
    /\ last_op = "meta"
    /\ pre.raw_title = raw_title
    /\ last_snap.artist # artist_text /\ pre.last_img_bytes # last_snap.img
    /\ pre.is_playing # last_snap.is_playing
    /\ pre.display_pos # last_snap.pos
    /\ scroll_wait_timer > 0 /\ scroll_wait_timer < 5 * TU
    /\ temp_mode_active

\* ------------------------------------------------------------ a snapshot applied twice
\* the step applies the snapshot that the step before it applied
AppliedAgain == SnapshotApplied /\ last_op = "meta" /\ Head(inbox) = last_snap

\* the first application (pre is the state before it) kept the position of a
\* playing widget against a paused snapshot of the same title that is more
\* than 0.5 s and at most 5 s away, and stored is_playing = false
LatePause ==
    LET diff == Abs(last_snap.pos - pre.display_pos)
    IN  /\ pre.raw_title = last_snap.title
        /\ pre.is_playing /\ ~last_snap.is_playing
        /\ ~(last_snap.pos = 0 /\ pre.display_pos > 5 * TU)
        /\ diff > TU \div 2 /\ diff <= 5 * TU

\* C33 as stated: applying the same snapshot a second time, with no tick or
\* input event in between, changes nothing of local_pos, is_playing, the
\* scroll state, the temp-mode state and the art counters and flags.
C33_SnapshotIdempotent ==
    [][ AppliedAgain =>
          UNCHANGED <<display_pos, is_playing, scrollVars, tempVars, artVars>>
      ]_vars

\* C33 amended: the second application leaves is_playing, the scroll state,
\* the temp-mode state and the art counters and flags as the first left them,
\* and local_pos too, except when the widget was playing and the snapshot of
\* the same title reports paused at a position more than 0.5 s and at most
\* 5 s away: the first application keeps local_pos, the second adopts the
\* snapshot's position.
C33_IdempotentUnlessLatePause ==
    [][ AppliedAgain =>
          /\ UNCHANGED <<is_playing, scrollVars, tempVars, artVars>>
          /\ IF LatePause
             THEN /\ display_pos = pre.display_pos
                  /\ display_pos' = last_snap.pos
                  /\ display_pos' # display_pos
             ELSE UNCHANGED display_pos
      ]_vars

\* C33 witness: with no tick at all, a playing track at 10 s received the
\* paused snapshot at 12 s twice; the second application moved local_pos
C33_Witness ==
    /\ last_op = "meta" /\ ticks = 0
    /\ pre.raw_title = raw_title
    /\ ~pre.is_playing /\ ~last_snap.is_playing
    /\ pre.display_pos = 10 * TU
    /\ last_snap.pos = 12 * TU
    /\ display_pos = 12 * TU

\* ------------------------------------------------------------ SpecQuiet
\* A few events at the start (a playing or a paused track, no session, clicks
\* on the body and on the play button, the pointer entering, moving over the
\* play button and leaving), then ticks once a second and nothing else.
QuietEvents == 3
QuietTicks == 110
\* the events fall within this many ticks
QuietWindow == 3

InitQuiet == InitWith(Offsets) /\ budget = QuietEvents

NextQuiet ==
    \/ \E s \in {SnapA, SnapPaused} : ticks < QuietWindow /\ PollStep("session", s)
    \/ ticks < QuietWindow /\ PollStep("none", NoSnap)
    \/ DeliverStep
    \/ TickStep(TU, QuietTicks)
    \/ PaintStep
    \/ \E x \in {BodyX, PlayX} : ticks < QuietWindow /\ PressStep(x, PlayY)
    \/ ticks < QuietWindow /\ EnterStep
    \/ ticks < QuietWindow /\ LeaveStep
    \/ ticks < QuietWindow /\ MoveStep(PlayX, PlayY)

SpecQuiet == InitQuiet /\ [][NextQuiet]_vars

\* ticks of 1 s after the last event by which every animation has ended (the
\* slowest, the box fade, needs 90 steps of 5% to pass 0.99)
QuietAfter == 90

\* C34: with is_playing false, the island not expanded and no event since,
\* from QuietAfter ticks after the last event on no tick signals a repaint:
\* every term of should_repaint is false and stays false.
C34_Quiescence ==
    (AfterTick /\ ~is_playing /\ ~is_expanded /\ since.n >= QuietAfter) =>
        /\ ~tick_repaint
        /\ ~ListedRepaintTerms /\ ~BoxFading /\ ~IdleAnimating

\* C34 witness: a paused track that arrived at the start, a hundred ticks
\* later: temp mode is over and the tick signals nothing
C34_Witness ==
    /\ AfterTick /\ since.n >= QuietAfter + 10
    /\ ~is_playing /\ ~is_expanded
    /\ title_text # "Idle"
    /\ ~temp_mode_active /\ temp_mode_start_time > 0
    /\ ~tick_repaint /\ ~update_pending

\* ------------------------------------------------------------ SpecClock
\* time.time() is the wall clock: between two timer callbacks it may stand
\* still or be set back.  A long title plays in an island that a click
\* expands, ticked with such clock readings.
ClockEvents == 3
ClockTicks == 9
\* clock differences between two callbacks when the clock did not advance, ms
ClockSteps == {-500, 0}

InitClock == InitWith(Offsets) /\ budget = ClockEvents

NextClock ==
    \/ PollStep("session", SnapA)
    \/ DeliverStep
    \/ TickStep(TU, ClockTicks)
    \/ \E d \in ClockSteps : SleepStep(d, ClockTicks)
    \/ PaintStep
    \/ PressStep(BodyX, BodyY)

SpecClock == InitClock /\ [][NextClock]_vars

\* C35: whatever timestamps the ticks read, equal or decreasing ones
\* included, the dt handed to the scroll and position steps lies in
\* [0, 1.0], the tick does not move local_pos backward, and a scrolling tick
\* does not move scroll_x against the direction it started with.
C35_DtInUnitRange ==
    AfterTick =>
        /\ 0 <= last_dt /\ last_dt <= 1 * TU
        /\ display_pos >= pre.display_pos
        /\ (tick_scrolling /\ pre.scroll_direction = 1) => scroll_x >= pre.scroll_x
        /\ (tick_scrolling /\ pre.scroll_direction = -1) => scroll_x <= pre.scroll_x

\* ------------------------------------------------------------ temp mode and "Idle"
\* C36: in every reachable state temp mode active implies that the current
\* title is not "Idle"; a snapshot that has just changed the title to "Idle"
\* leaves temp mode off.
C36_TempModeNotIdle ==
    /\ temp_mode_active => (title_text # "Idle" /\ raw_title # "Idle")
    /\ (last_op = "meta" /\ title_text = "Idle") => ~temp_mode_active

\* C36 witness: after "Idle" a track arrived and switched temp mode on
C36_Witness ==
    /\ last_op = "meta"
    /\ pre.raw_title = "Idle" /\ ~pre.temp_mode_active
    /\ title_text = "A"
    /\ temp_mode_active /\ temp_mode_start_time = now

\* ------------------------------------------------------------ flip and fade together
\* C37: in every reachable state an active flip implies an active fade, and
\* both progress values lie in [0, 1]; the two are reset together and the
\* flip, with the larger step, is never behind the fade.
C37_FlipImpliesFade ==
    /\ is_flipping_art => is_fading_art
    /\ 0 <= art_flip_progress /\ art_flip_progress <= ONE
    /\ 0 <= art_fade_progress /\ art_fade_progress <= ONE
    /\ art_flip_progress >= art_fade_progress
    /\ ~is_fading_art => art_fade_progress \in {0, ONE}

\* C37 witness: some ticks after an artwork change both transitions are
\* under way, the flip ahead of the fade
C37_Witness ==
    /\ AfterTick
    /\ is_flipping_art /\ is_fading_art
    /\ art_fade_progress > ONE \div 2
    /\ art_flip_progress > art_fade_progress /\ art_flip_progress < ONE
    /\ current_album_art # 0

\* ------------------------------------------------------------ SpecClicks
\* Left clicks on the body, on the seek bar and on the three transport
\* buttons, at the same pixels whether the island is collapsed, expanded with
\* a track or expanded with no media, while the spring resizes the window.
ClickEvents == 4
ClickTicks == 4
ClickPoints == ButtonPoints \cup {<<240, SeekY>>}

InitClicks == InitWith(Offsets) /\ budget = ClickEvents

NextClicks ==
    \/ PollStep("session", SnapPaused)
    \/ PollStep("none", NoSnap)
    \/ DeliverStep
    \/ TickStep(FrameMs, ClickTicks)
    \/ PaintStep
    \/ \E p \in ClickPoints : InWindow(p[1], p[2]) /\ PressStep(p[1], p[2])

SpecClicks == InitClicks /\ [][NextClicks]_vars

\* the pixel (px, py) lies on the seek bar (15 px high, ending at
\* height - BARYPOS, from x = 220 over width - 240) or within 20 px of the
\* centre of a transport button
OnControls(px, py) ==
    LET bar_w == win_w - 240
        bar_y == win_h - BARYPOS
        btn_y == win_h - BTNYPOS
        on_seek == /\ bar_w # 0
                   /\ px >= Min(220, 220 + bar_w) /\ px <= Max(220, 220 + bar_w)
                   /\ py >= bar_y - 15 /\ py <= bar_y
        on_button == /\ \E dx \in {-60, 0, 60} :
                           Abs(2 * px - (2 * 220 + bar_w + 2 * dx)) <= 40
                     /\ Abs(py - btn_y) <= 20
    IN  on_seek \/ on_button

\* C38: a left click while expanded with media present that lands on the
\* seek bar or on a transport button leaves is_expanded and the velocity as
\* they were; every other left click toggles is_expanded exactly once.
C38_ClickTogglesUnlessControl ==
    [][ \A p \in ClickPoints :
          (InWindow(p[1], p[2]) /\ PressStep(p[1], p[2])) =>
              IF is_expanded /\ title_text # "Idle" /\ OnControls(p[1], p[2])
              THEN /\ is_expanded' = is_expanded
                   /\ UNCHANGED <<vel_w, vel_h>>
                   /\ last_op' \in CommandOps
              ELSE /\ is_expanded' = ~is_expanded
                   /\ last_op' = "press"
      ]_vars

\* C38 witness: while the expanded island was still growing, a click on the
\* next button left it expanded and its velocity untouched
C38_Witness ==
    /\ last_op = "next"
    /\ is_expanded /\ title_text # "Idle"
    /\ <<vel_w, vel_h>> = pre.vel /\ vel_w # 0
====
